---------------------------- MODULE Spec2Model ----------------------------
(***************************************************************************)
(* A model of the rammerhead-proxy server: the session store               *)
(* (src/server/session-engine.ts), the request forwarding pipeline         *)
(* (src/server/proxy.ts, src/server/index.ts) and the header transform     *)
(* engine (src/server/proxy-advanced.ts).                                  *)
(*                                                                         *)
(* Conventions.                                                            *)
(*  - A JavaScript string that the code takes apart or puts together is a  *)
(*    sequence of atoms (<<"a", ":", "b">> is "a:b"); the atoms used form  *)
(*    a prefix-free code, so two sequences are equal exactly when the      *)
(*    strings are.  Other strings are TLA+ strings.                        *)
(*  - A plain JavaScript object used as a map ({} with Object.prototype)   *)
(*    is a function from its own enumerable keys to values; ObjSet and     *)
(*    ObjGet give the language's [[Set]] and [[Get]] on such an object.    *)
(*  - Date.now() / new Date() read the variable now; the clock never goes  *)
(*    back.  An operation that reads the clock more than once may see it   *)
(*    advance between the reads (Drift).                                   *)
(***************************************************************************)
EXTENDS Integers, Sequences, FiniteSets, TLC

(***************************************************************************)
(* The three limits of SessionEngine, scaled down: the code's values are   *)
(* 100 sessions, 24 hours (in clock ticks here) and 1000 entries.          *)
(***************************************************************************)
MAX_SESSIONS == 2

SESSION_TIMEOUT == 1

HISTORY_LIMIT == 2

(***************************************************************************)
(* Bounds of the model: the session ids randomBytes can draw, and the      *)
(* last value of the clock.                                                *)
(***************************************************************************)
NumIds == 3

MaxClock == 2

VARIABLES
    sessions,   \* SessionEngine.sessions: live id -> SessionData
    order,      \* insertion order of the keys of SessionEngine.sessions
    now,        \* the wall clock
    ret,        \* the last store operation, its arguments and its result
    reqs,       \* the HTTP requests: request number -> its state
    eng         \* an AdvancedProxyEngine used on its own: its last call

storeVars == <<sessions, order, now, ret>>

vars == <<sessions, order, now, ret, reqs, eng>>

(***************************************************************************)
(* Values.                                                                 *)
(***************************************************************************)
SessionIds == 1 .. NumIds

Undefined == "undefined"

UndefinedArg == <<"#undefined">>

Drift == {0, 1}

NoDetails == [cookieCount |-> 0, localStorageCount |-> 0, requestCount |-> 0,
              recentRequests |-> <<>>]

NoArgs == [name |-> <<>>, value |-> "", domain |-> UndefinedArg]

NoEntry == [timestamp |-> 0, method |-> "", url |-> "", statusCode |-> 0,
            duration |-> 0]

\* custom is the argument of createSession; idle is, for a getSession that
\* found its id, the time since the session was last accessed
NoRet == [op |-> "none", id |-> 0, val |-> Undefined, evicted |-> {},
          details |-> NoDetails, args |-> NoArgs, entry |-> NoEntry,
          custom |-> <<>>, idle |-> 0]

(***************************************************************************)
(* Map<string, SessionData> with its insertion order.                      *)
(***************************************************************************)
MapDelete(S, id) == [k \in DOMAIN S \ {id} |-> S[k]]

MapSet(S, id, v) == [k \in DOMAIN S \cup {id} |-> IF k = id THEN v ELSE S[k]]

OrderDelete(O, id) == SelectSeq(O, LAMBDA k : k # id)

OrderSet(O, id) == IF \E i \in 1 .. Len(O) : O[i] = id THEN O ELSE Append(O, id)

(***************************************************************************)
(* Plain objects: session.cookies and session.localStorage are {} .        *)
(* o[k] = v on the key __proto__ runs the accessor of Object.prototype,    *)
(* which ignores a value that is neither an object nor null; o[k] on a key *)
(* the object does not own reads the prototype.                            *)
(***************************************************************************)
ProtoKey == <<"__proto__">>

ObjectPrototype == "[Object.prototype]"

ObjSet(o, k, v) ==
    IF k = ProtoKey THEN o
    ELSE [x \in DOMAIN o \cup {k} |-> IF x = k THEN v ELSE o[x]]

ObjGet(o, k) ==
    IF k \in DOMAIN o THEN o[k]
    ELSE IF k = ProtoKey THEN ObjectPrototype
    ELSE Undefined

ObjKeys(o) == DOMAIN o

(***************************************************************************)
(* generateBrowserFingerprint: custom is the Partial<BrowserFingerprint>   *)
(* (a record of the fields given), draw the outcome of the random picks.   *)
(***************************************************************************)
browsers ==
    << [userAgent |-> "Chrome/120 Windows", platform |-> "Win32",
        hardwareConcurrency |-> 8, deviceMemory |-> 16],
       [userAgent |-> "Safari/17.1 Macintosh", platform |-> "MacIntel",
        hardwareConcurrency |-> 8, deviceMemory |-> 16],
       [userAgent |-> "Chrome/120 Linux", platform |-> "Linux x86_64",
        hardwareConcurrency |-> 4, deviceMemory |-> 8] >>

screenResolutions == <<"1920x1080", "1366x768", "1440x900", "2560x1440">>

colorDepths == <<24, 32>>

timezones == <<"UTC", "Asia/Tokyo", "America/New_York", "Europe/London">>

Has(custom, f) == f \in DOMAIN custom

\* a || b on an optional field: the field when present and truthy
OrStr(custom, f, dflt) ==
    IF Has(custom, f) /\ custom[f] # "" THEN custom[f] ELSE dflt

OrNum(custom, f, dflt) ==
    IF Has(custom, f) /\ custom[f] # 0 THEN custom[f] ELSE dflt

\* a ?? b on an optional field: the field when present
Nullish(custom, f, dflt) == IF Has(custom, f) THEN custom[f] ELSE dflt

generateBrowserFingerprint(custom, draw) ==
    LET browser == browsers[draw.browser] IN
    [ userAgent           |-> OrStr(custom, "userAgent", browser.userAgent),
      acceptLanguage      |-> OrStr(custom, "acceptLanguage", "ja-JP,ja;q=0.9"),
      acceptEncoding      |-> OrStr(custom, "acceptEncoding", "gzip, deflate, br"),
      timezone            |-> OrStr(custom, "timezone", timezones[draw.timezone]),
      screenResolution    |-> OrStr(custom, "screenResolution",
                                    screenResolutions[draw.screen]),
      colorDepth          |-> OrNum(custom, "colorDepth", colorDepths[draw.depth]),
      platform            |-> OrStr(custom, "platform", browser.platform),
      hardwareConcurrency |-> OrNum(custom, "hardwareConcurrency",
                                    browser.hardwareConcurrency),
      deviceMemory        |-> OrNum(custom, "deviceMemory", browser.deviceMemory),
      webGLVendor         |-> OrStr(custom, "webGLVendor", "Google Inc."),
      webGLRenderer       |-> OrStr(custom, "webGLRenderer",
                                    "ANGLE (Intel HD Graphics)"),
      canvas              |-> OrStr(custom, "canvas", draw.canvas),
      webRTC              |-> Nullish(custom, "webRTC", TRUE) ]

(***************************************************************************)
(* createSession.                                                          *)
(***************************************************************************)
\* mutant of AtCapacity: > for >=
AtCapacityStrict(S) == Cardinality(DOMAIN S) > MAX_SESSIONS

\* line 58: the store is full
AtCapacity(S) == Cardinality(DOMAIN S) >= MAX_SESSIONS

\* mutant of OlderOf: > for <
OlderOfNewer(S, prev, current) ==
    IF S[prev].lastAccessedAt > S[current].lastAccessedAt THEN prev ELSE current

\* mutant of OlderOf: <= for <, a tie keeps the earlier session
OlderOfTiesFirst(S, prev, current) ==
    IF S[prev].lastAccessedAt <= S[current].lastAccessedAt THEN prev ELSE current

\* line 61: the callback of reduce
OlderOf(S, prev, current) ==
    IF S[prev].lastAccessedAt < S[current].lastAccessedAt THEN prev ELSE current

RECURSIVE ReduceFrom(_, _, _, _)
ReduceFrom(S, O, acc, i) ==
    IF i > Len(O) THEN acc ELSE ReduceFrom(S, O, OlderOf(S, acc, O[i]), i + 1)

\* lines 60-62: Array.from(values()).reduce(...) without an initial value
OldestSession(S, O) == ReduceFrom(S, O, O[1], 2)

\* lines 58-64: the ids the capacity check deletes
EvictedBy(S, O) == IF AtCapacity(S) THEN {OldestSession(S, O)} ELSE {}

\* mutant of NewSession: lastAccessedAt is read from the clock first
NewSessionAccessedFirst(id, t1, t2, fingerprint) ==
    [ id                 |-> id,
      createdAt          |-> t2,
      lastAccessedAt     |-> t1,
      cookies            |-> <<>>,
      localStorage       |-> <<>>,
      sessionStorage     |-> <<>>,
      browserFingerprint |-> fingerprint,
      requestHistory     |-> <<>> ]

\* lines 69-78
NewSession(id, t1, t2, fingerprint) ==
    [ id                 |-> id,
      createdAt          |-> t1,
      lastAccessedAt     |-> t2,
      cookies            |-> <<>>,
      localStorage       |-> <<>>,
      sessionStorage     |-> <<>>,
      browserFingerprint |-> fingerprint,
      requestHistory     |-> <<>> ]

CreateSession(id, custom, draw, d) ==
    /\ now + d <= MaxClock
    /\ LET ev == EvictedBy(sessions, order)
           S1 == IF ev = {} THEN sessions
                 ELSE MapDelete(sessions, CHOOSE v \in ev : TRUE)
           O1 == IF ev = {} THEN order
                 ELSE OrderDelete(order, CHOOSE v \in ev : TRUE)
           fp == generateBrowserFingerprint(custom, draw)
       IN /\ sessions' = MapSet(S1, id, NewSession(id, now, now + d, fp))
          /\ order' = OrderSet(O1, id)
          /\ ret' = [NoRet EXCEPT !.op = "createSession", !.id = id,
                                  !.val = "session", !.evicted = ev,
                                  !.custom = custom]
    /\ now' = now + d
    /\ UNCHANGED <<reqs, eng>>

(***************************************************************************)
(* getSession: the store after the call and whether a session is returned. *)
(* t1 is the clock at new Date() (line 90), t2 at Date.now() (line 92).    *)
(***************************************************************************)
IsStale(lastAccessedAt, t) == t - lastAccessedAt > SESSION_TIMEOUT

\* mutant of getSession: the touch also resets the fingerprint's time zone
getSessionResetsTimezone(S, O, id, t1, t2) ==
    IF id \in DOMAIN S
    THEN LET S1 == [S EXCEPT ![id].lastAccessedAt = t1,
                             ![id].browserFingerprint.timezone = timezones[1]] IN
         IF IsStale(S1[id].lastAccessedAt, t2)
         THEN [sessions |-> MapDelete(S1, id), order |-> OrderDelete(O, id),
               found |-> FALSE]
         ELSE [sessions |-> S1, order |-> O, found |-> TRUE]
    ELSE [sessions |-> S, order |-> O, found |-> FALSE]

\* mutant of getSession: staleness is tested on the old lastAccessedAt
getSessionChecksFirst(S, O, id, t1, t2) ==
    IF id \in DOMAIN S
    THEN IF IsStale(S[id].lastAccessedAt, t2)
         THEN [sessions |-> MapDelete(S, id), order |-> OrderDelete(O, id),
               found |-> FALSE]
         ELSE [sessions |-> [S EXCEPT ![id].lastAccessedAt = t1], order |-> O,
               found |-> TRUE]
    ELSE [sessions |-> S, order |-> O, found |-> FALSE]

\* mutant of getSession: the session is returned without the touch
getSessionNoTouch(S, O, id, t1, t2) ==
    IF id \in DOMAIN S
    THEN [sessions |-> S, order |-> O, found |-> TRUE]
    ELSE [sessions |-> S, order |-> O, found |-> FALSE]

getSession(S, O, id, t1, t2) ==
    IF id \in DOMAIN S
    THEN LET S1 == [S EXCEPT ![id].lastAccessedAt = t1] IN
         IF IsStale(S1[id].lastAccessedAt, t2)
         THEN [sessions |-> MapDelete(S1, id), order |-> OrderDelete(O, id),
               found |-> FALSE]
         ELSE [sessions |-> S1, order |-> O, found |-> TRUE]
    ELSE [sessions |-> S, order |-> O, found |-> FALSE]

GetSession(id, d) ==
    /\ now + d <= MaxClock
    /\ LET g == getSession(sessions, order, id, now, now + d) IN
       /\ sessions' = g.sessions
       /\ order' = g.order
       /\ ret' = [NoRet EXCEPT !.op = "getSession", !.id = id,
                               !.val = IF g.found THEN "session" ELSE Undefined,
                               !.idle = IF id \in DOMAIN sessions
                                        THEN now - sessions[id].lastAccessedAt
                                        ELSE 0]
    /\ now' = now + d
    /\ UNCHANGED <<reqs, eng>>

(***************************************************************************)
(* Cookies and localStorage.                                               *)
(***************************************************************************)
\* lines 175 and 187: domain ? `${domain}:${name}` : name
CookieKey(name, domain) ==
    IF domain = UndefinedArg \/ domain = <<>> THEN name
    ELSE domain \o <<":">> \o name

SetCookie(id, name, value, domain, d) ==
    /\ now + d <= MaxClock
    /\ LET g == getSession(sessions, order, id, now, now + d) IN
       /\ order' = g.order
       /\ IF ~g.found
          THEN /\ sessions' = g.sessions
               /\ ret' = [NoRet EXCEPT !.op = "setCookie", !.id = id, !.val = "false",
                             !.args = [name |-> name, value |-> value,
                                       domain |-> domain]]
          ELSE /\ sessions' = [g.sessions EXCEPT ![id].cookies =
                                  ObjSet(@, CookieKey(name, domain), value)]
               /\ ret' = [NoRet EXCEPT !.op = "setCookie", !.id = id, !.val = "true",
                             !.args = [name |-> name, value |-> value,
                                       domain |-> domain]]
    /\ now' = now + d
    /\ UNCHANGED <<reqs, eng>>

GetCookie(id, name, domain, d) ==
    /\ now + d <= MaxClock
    /\ LET g == getSession(sessions, order, id, now, now + d) IN
       /\ order' = g.order
       /\ sessions' = g.sessions
       /\ ret' = [NoRet EXCEPT !.op = "getCookie", !.id = id,
                    !.args = [NoArgs EXCEPT !.name = name, !.domain = domain],
                    !.val = IF g.found
                            THEN ObjGet(g.sessions[id].cookies, CookieKey(name, domain))
                            ELSE Undefined]
    /\ now' = now + d
    /\ UNCHANGED <<reqs, eng>>

SetLocalStorage(id, key, value, d) ==
    /\ now + d <= MaxClock
    /\ LET g == getSession(sessions, order, id, now, now + d) IN
       /\ order' = g.order
       /\ IF ~g.found
          THEN /\ sessions' = g.sessions
               /\ ret' = [NoRet EXCEPT !.op = "setLocalStorage", !.id = id,
                             !.val = "false",
                             !.args = [NoArgs EXCEPT !.name = key, !.value = value]]
          ELSE /\ sessions' = [g.sessions EXCEPT ![id].localStorage =
                                  ObjSet(@, key, value)]
               /\ ret' = [NoRet EXCEPT !.op = "setLocalStorage", !.id = id,
                             !.val = "true",
                             !.args = [NoArgs EXCEPT !.name = key, !.value = value]]
    /\ now' = now + d
    /\ UNCHANGED <<reqs, eng>>

GetLocalStorage(id, key, d) ==
    /\ now + d <= MaxClock
    /\ LET g == getSession(sessions, order, id, now, now + d) IN
       /\ order' = g.order
       /\ sessions' = g.sessions
       /\ ret' = [NoRet EXCEPT !.op = "getLocalStorage", !.id = id,
                    !.args = [NoArgs EXCEPT !.name = key],
                    !.val = IF g.found
                            THEN ObjGet(g.sessions[id].localStorage, key)
                            ELSE Undefined]
    /\ now' = now + d
    /\ UNCHANGED <<reqs, eng>>

(***************************************************************************)
(* logRequest.                                                             *)
(***************************************************************************)
\* slice(-n): the last n elements
SliceLast(h, n) == IF Len(h) <= n THEN h ELSE SubSeq(h, Len(h) - n + 1, Len(h))

\* mutant of TrimHistory: slice(0, n) for slice(-n)
TrimHistoryHead(h) ==
    IF Len(h) > HISTORY_LIMIT THEN SubSeq(h, 1, HISTORY_LIMIT) ELSE h

\* lines 234-236
TrimHistory(h) == IF Len(h) > HISTORY_LIMIT THEN SliceLast(h, HISTORY_LIMIT) ELSE h

RequestLog(t, method, url, statusCode, duration) ==
    [timestamp |-> t, method |-> method, url |-> url, statusCode |-> statusCode,
     duration |-> duration]

\* mutant of logRequest: the missing-session test reports success
logRequestMissingCheck(S, O, id, method, url, statusCode, duration, t1, t2) ==
    LET g == getSession(S, O, id, t1, t2) IN
    IF ~g.found
    THEN [sessions |-> g.sessions, order |-> g.order, val |-> "true", pushed |-> 0]
    ELSE [sessions |-> [g.sessions EXCEPT ![id].requestHistory =
                           TrimHistory(Append(@, RequestLog(t2, method, url,
                                                            statusCode, duration)))],
          order |-> g.order, val |-> "true",
          pushed |-> Len(g.sessions[id].requestHistory) + 1]

\* mutant of logRequest: the entry replaces the history instead of joining it
logRequestOverwrites(S, O, id, method, url, statusCode, duration, t1, t2) ==
    LET g == getSession(S, O, id, t1, t2) IN
    IF ~g.found
    THEN [sessions |-> g.sessions, order |-> g.order, val |-> "false", pushed |-> 0]
    ELSE [sessions |-> [g.sessions EXCEPT ![id].requestHistory =
                           <<RequestLog(t2, method, url, statusCode, duration)>>],
          order |-> g.order, val |-> "true",
          pushed |-> Len(g.sessions[id].requestHistory) + 1]

\* pushed is requestHistory.length after the push (line 234), before the cut
logRequest(S, O, id, method, url, statusCode, duration, t1, t2) ==
    LET g == getSession(S, O, id, t1, t2) IN
    IF ~g.found
    THEN [sessions |-> g.sessions, order |-> g.order, val |-> "false", pushed |-> 0]
    ELSE [sessions |-> [g.sessions EXCEPT ![id].requestHistory =
                           TrimHistory(Append(@, RequestLog(t2, method, url,
                                                            statusCode, duration)))],
          order |-> g.order, val |-> "true",
          pushed |-> Len(g.sessions[id].requestHistory) + 1]

LogRequest(id, method, url, statusCode, duration, d) ==
    /\ now + d <= MaxClock
    /\ LET l == logRequest(sessions, order, id, method, url, statusCode, duration,
                           now, now + d) IN
       /\ sessions' = l.sessions
       /\ order' = l.order
       /\ ret' = [NoRet EXCEPT !.op = "logRequest", !.id = id, !.val = l.val,
                    !.details.requestCount = l.pushed,
                    !.entry = RequestLog(now + d, method, url, statusCode, duration)]
    /\ now' = now + d
    /\ UNCHANGED <<reqs, eng>>

(***************************************************************************)
(* getStats, deleteSession, clearAllSessions, getSessionDetails.           *)
(***************************************************************************)
GetStats ==
    /\ ret' = [NoRet EXCEPT !.op = "getStats", !.val = "stats",
                 !.details = [activeSessions |-> Cardinality(DOMAIN sessions),
                              totalSessions  |-> Cardinality(DOMAIN sessions),
                              sessionIds     |-> order]]
    /\ UNCHANGED <<sessions, order, now>>
    /\ UNCHANGED <<reqs, eng>>

\* mutant of deleteSession: reports success whatever Map.delete returned
deleteSessionAlwaysTrue(S, O, id) ==
    [sessions |-> MapDelete(S, id), order |-> OrderDelete(O, id), val |-> "true"]

\* Map.delete returns whether the key was present
deleteSession(S, O, id) ==
    [sessions |-> MapDelete(S, id), order |-> OrderDelete(O, id),
     val |-> IF id \in DOMAIN S THEN "true" ELSE "false"]

DeleteSession(id) ==
    /\ LET r == deleteSession(sessions, order, id) IN
       /\ sessions' = r.sessions
       /\ order' = r.order
       /\ ret' = [NoRet EXCEPT !.op = "deleteSession", !.id = id, !.val = r.val]
    /\ UNCHANGED now
    /\ UNCHANGED <<reqs, eng>>

ClearAllSessions ==
    /\ sessions' = <<>>
    /\ order' = <<>>
    /\ ret' = [NoRet EXCEPT !.op = "clearAllSessions"]
    /\ UNCHANGED now
    /\ UNCHANGED <<reqs, eng>>

\* lines 273-282
SessionDetails(s) ==
    [cookieCount       |-> Cardinality(ObjKeys(s.cookies)),
     localStorageCount |-> Cardinality(ObjKeys(s.localStorage)),
     requestCount      |-> Len(s.requestHistory),
     recentRequests    |-> SliceLast(s.requestHistory, 10)]

GetSessionDetails(id, d) ==
    /\ now + d <= MaxClock
    /\ LET g == getSession(sessions, order, id, now, now + d) IN
       /\ order' = g.order
       /\ sessions' = g.sessions
       /\ ret' = IF g.found
                 THEN [NoRet EXCEPT !.op = "getSessionDetails", !.id = id,
                          !.val = "details",
                          !.details = SessionDetails(g.sessions[id])]
                 ELSE [NoRet EXCEPT !.op = "getSessionDetails", !.id = id,
                          !.val = "null"]
    /\ now' = now + d
    /\ UNCHANGED <<reqs, eng>>

(***************************************************************************)
(* Time passes.                                                            *)
(***************************************************************************)
Tick ==
    /\ now < MaxClock
    /\ now' = now + 1
    /\ ret' = NoRet
    /\ UNCHANGED <<sessions, order>>
    /\ UNCHANGED <<reqs, eng>>

(***************************************************************************)
(* Header names.  Each triple gives a name in lower case, in upper case    *)
(* and in one mixed-case spelling; toLowerCase and toUpperCase map any of  *)
(* the three to the first and the second.  Header values are atom          *)
(* sequences.                                                              *)
(***************************************************************************)
TRACKING_HEADERS ==
    << "x-forwarded-for", "x-forwarded-proto", "x-forwarded-host", "x-real-ip",
       "cf-connecting-ip", "cf-ray", "cf-ipcountry", "x-client-ip",
       "x-originating-ip", "x-cluster-client-ip", "x-forwarded-server",
       "x-forwarded-by", "x-forwarded-for-original", "x-original-forwarded-for" >>

SECURITY_HEADERS ==
    << "content-security-policy", "x-frame-options", "x-content-type-options",
       "x-xss-protection", "strict-transport-security", "referrer-policy" >>

CaseTable ==
    { <<"x-forwarded-for", "X-FORWARDED-FOR", "X-Forwarded-For">>,
      <<"x-forwarded-proto", "X-FORWARDED-PROTO", "X-Forwarded-Proto">>,
      <<"x-forwarded-host", "X-FORWARDED-HOST", "X-Forwarded-Host">>,
      <<"x-real-ip", "X-REAL-IP", "X-Real-IP">>,
      <<"cf-connecting-ip", "CF-CONNECTING-IP", "CF-Connecting-IP">>,
      <<"cf-ray", "CF-RAY", "CF-Ray">>,
      <<"cf-ipcountry", "CF-IPCOUNTRY", "CF-IPCountry">>,
      <<"x-client-ip", "X-CLIENT-IP", "X-Client-IP">>,
      <<"x-originating-ip", "X-ORIGINATING-IP", "X-Originating-IP">>,
      <<"x-cluster-client-ip", "X-CLUSTER-CLIENT-IP", "X-Cluster-Client-IP">>,
      <<"x-forwarded-server", "X-FORWARDED-SERVER", "X-Forwarded-Server">>,
      <<"x-forwarded-by", "X-FORWARDED-BY", "X-Forwarded-By">>,
      <<"x-forwarded-for-original", "X-FORWARDED-FOR-ORIGINAL",
        "X-Forwarded-For-Original">>,
      <<"x-original-forwarded-for", "X-ORIGINAL-FORWARDED-FOR",
        "X-Original-Forwarded-For">>,
      <<"content-security-policy", "CONTENT-SECURITY-POLICY",
        "Content-Security-Policy">>,
      <<"x-frame-options", "X-FRAME-OPTIONS", "X-Frame-Options">>,
      <<"x-content-type-options", "X-CONTENT-TYPE-OPTIONS",
        "X-Content-Type-Options">>,
      <<"x-xss-protection", "X-XSS-PROTECTION", "X-XSS-Protection">>,
      <<"strict-transport-security", "STRICT-TRANSPORT-SECURITY",
        "Strict-Transport-Security">>,
      <<"referrer-policy", "REFERRER-POLICY", "Referrer-Policy">>,
      <<"user-agent", "USER-AGENT", "User-Agent">>,
      <<"accept-language", "ACCEPT-LANGUAGE", "Accept-Language">>,
      <<"accept-encoding", "ACCEPT-ENCODING", "Accept-Encoding">>,
      <<"accept", "ACCEPT", "Accept">>,
      <<"dnt", "DNT", "Dnt">>,
      <<"sec-fetch-dest", "SEC-FETCH-DEST", "Sec-Fetch-Dest">>,
      <<"sec-fetch-mode", "SEC-FETCH-MODE", "Sec-Fetch-Mode">>,
      <<"sec-fetch-site", "SEC-FETCH-SITE", "Sec-Fetch-Site">>,
      <<"sec-fetch-user", "SEC-FETCH-USER", "Sec-Fetch-User">>,
      <<"sec-ch-ua", "SEC-CH-UA", "Sec-CH-UA">>,
      <<"sec-ch-ua-mobile", "SEC-CH-UA-MOBILE", "Sec-CH-UA-Mobile">>,
      <<"sec-ch-ua-platform", "SEC-CH-UA-PLATFORM", "Sec-CH-UA-Platform">>,
      <<"referer", "REFERER", "Referer">>,
      <<"upgrade-insecure-requests", "UPGRADE-INSECURE-REQUESTS",
        "Upgrade-Insecure-Requests">>,
      <<"cache-control", "CACHE-CONTROL", "Cache-Control">>,
      <<"pragma", "PRAGMA", "Pragma">>,
      <<"host", "HOST", "Host">>,
      <<"cookie", "COOKIE", "Cookie">>,
      <<"content-type", "CONTENT-TYPE", "Content-Type">>,
      <<"authorization", "AUTHORIZATION", "Authorization">>,
      <<"x-custom", "X-CUSTOM", "X-Custom">>,
      <<"access-control-allow-origin", "ACCESS-CONTROL-ALLOW-ORIGIN",
        "Access-Control-Allow-Origin">>,
      <<"access-control-allow-methods", "ACCESS-CONTROL-ALLOW-METHODS",
        "Access-Control-Allow-Methods">>,
      <<"access-control-allow-headers", "ACCESS-CONTROL-ALLOW-HEADERS",
        "Access-Control-Allow-Headers">> }

Spellings(n) == CHOOSE t \in CaseTable : n \in {t[1], t[2], t[3]}

toLowerCase(n) == Spellings(n)[1]

toUpperCase(n) == Spellings(n)[2]

SeqToSet(q) == {q[i] : i \in 1 .. Len(q)}

\* headers[k] = v on a header map (its keys are header names)
HdrSet(o, k, v) == (k :> v) @@ o

\* the map without the keys in gone (o is bound once, through a singleton)
RemoveKeys(o, gone) ==
    CHOOSE r \in {[x \in DOMAIN h \ gone |-> h[x]] : h \in {o}} : TRUE

\* delete headers[k]
HdrDelete(o, k) == RemoveKeys(o, {k})

(***************************************************************************)
(* URLs.  A URL string is given by the components the WHATWG parser splits *)
(* it into, with its text; new URL(text) throws when there is no scheme    *)
(* (a relative reference) or when an http(s) URL has no host.              *)
(***************************************************************************)
Url(text, scheme, host, port, path, query) ==
    [text |-> text, scheme |-> scheme, host |-> host, port |-> port,
     path |-> path, query |-> query]

UrlMissing == Url("", "", "", "", "", "")

UrlNotAUrl == Url("not-a-url", "", "", "", "not-a-url", "")

UrlNoHost == Url("http://", "http", "", "", "", "")

UrlExample == Url("https://example.com/base?x=1", "https", "example.com", "",
                  "/base", "x=1")

UrlOther == Url("http://other.org:8080/", "http", "other.org", "8080", "/", "")

\* an absolute URL that has no host
UrlMailto == Url("mailto:user@example.com", "mailto", "", "", "user@example.com", "")

\* the schemes whose URLs must have a host
SpecialSchemes == {"http", "https", "ws", "wss", "ftp"}

\* new URL(u): whether it returns (ok) or throws TypeError
ParseURL(u) ==
    [ok |-> u.scheme # "" /\ (u.scheme \in SpecialSchemes => u.host # "")]

\* mutant of Origin: the whole href, the target's path and query included
OriginKeepsPath(u) == <<u.scheme, "://", u.host>> \o (IF u.port = "" THEN <<>> ELSE <<":", u.port>>) \o <<u.path>> \o (IF u.query = "" THEN <<>> ELSE <<"?", u.query>>)

\* URL.origin: opaque ("null") for a scheme that is not special
Origin(u) == IF u.scheme \notin SpecialSchemes THEN <<"null">> ELSE <<u.scheme, "://", u.host>> \o (IF u.port = "" THEN <<>> ELSE <<":", u.port>>)

\* the path that url.parse finds in a target string (http-proxy)
TargetPath(target) ==
    IF Len(target) >= 4 /\ target[4] = ":"
    THEN SubSeq(target, 6, Len(target))
    ELSE SubSeq(target, 4, Len(target))

\* proxy.web / proxy.ws: the request line sent upstream is the target's
\* path joined with req.url
setupOutgoing(target, reqUrl) == TargetPath(target) \o reqUrl

(***************************************************************************)
(* AdvancedProxyEngine: the header transforms.  draw is the outcome of the *)
(* Math.random picks: ua (the user agent), lang, refPath.                  *)
(***************************************************************************)
\* Object.values(BROWSER_USER_AGENTS).flat()
allAgents ==
    << <<"UA chrome windows">>, <<"UA chrome mac">>, <<"UA chrome linux">>,
       <<"UA firefox windows">>, <<"UA firefox mac">>, <<"UA firefox linux">>,
       <<"UA safari mac">>, <<"UA safari iphone">>,
       <<"UA edge windows">>, <<"UA edge mac">> >>

languages == << <<"ja-JP,ja;q=0.9">>, <<"en-US,en;q=0.9">>, <<"en-GB,en;q=0.9">> >>

refererPaths == <<"/", "/search", "/page", "/index.html">>

getRandomUserAgent(draw) == allAgents[draw.ua]

SpoofedValues(draw) ==
    [ x \in {"user-agent", "accept-language", "accept-encoding", "accept", "dnt",
             "sec-fetch-dest", "sec-fetch-mode", "sec-fetch-site", "sec-fetch-user",
             "sec-ch-ua", "sec-ch-ua-mobile", "sec-ch-ua-platform"} |->
        CASE x = "user-agent"         -> getRandomUserAgent(draw)
          [] x = "accept-language"    -> languages[draw.lang]
          [] x = "accept-encoding"    -> <<"gzip, deflate, br">>
          [] x = "accept"             ->
                <<"text/html,application/xhtml+xml,application/xml;q=0.9,image/webp,*/*;q=0.8">>
          [] x = "dnt"                -> <<"1">>
          [] x = "sec-fetch-dest"     -> <<"document">>
          [] x = "sec-fetch-mode"     -> <<"navigate">>
          [] x = "sec-fetch-site"     -> <<"none">>
          [] x = "sec-fetch-user"     -> <<"?1">>
          [] x = "sec-ch-ua"          ->
                <<"\"Not_A Brand\";v=\"8\", \"Chromium\";v=\"120\"">>
          [] x = "sec-ch-ua-mobile"   -> <<"?0">>
          [] x = "sec-ch-ua-platform" -> <<"\"Windows\"">> ]

\* mutant of spoofHeaders: the caller's values win over the spoofed ones
spoofHeadersKeepsCaller(headers, draw) == headers @@ SpoofedValues(draw)

\* { ...headers } then the twelve assignments
spoofHeaders(headers, draw) == SpoofedValues(draw) @@ headers

\* mutant of RemoveListed: the cookie header is deleted too
RemoveListedAndCookie(headers, names) ==
    RemoveKeys(headers, SeqToSet(names) \cup {toUpperCase(n) : n \in SeqToSet(names)}
                        \cup {"cookie"})

\* delete cleaned[header]; delete cleaned[header.toUpperCase()] for each name
RemoveListed(headers, names) ==
    RemoveKeys(headers, SeqToSet(names) \cup {toUpperCase(n) : n \in SeqToSet(names)})

removeTrackingHeaders(headers) == RemoveListed(headers, TRACKING_HEADERS)

removeSecurityHeaders(headers) == RemoveListed(headers, SECURITY_HEADERS)

\* throws when new URL(targetUrl) throws
generateReferer(targetUrl, draw) ==
    [threw |-> ~ParseURL(targetUrl).ok,
     val   |-> <<"https://", targetUrl.host, refererPaths[draw.refPath]>>]

fullSpoof(headers, targetUrl, draw) ==
    LET s1  == spoofHeaders(headers, draw)
        s2  == removeTrackingHeaders(s1)
        s3  == removeSecurityHeaders(s2)
        ref == generateReferer(targetUrl, draw)
        s4  == HdrSet(s3, "referer", ref.val)
        s5  == HdrSet(s4, "upgrade-insecure-requests", <<"1">>)
        s6  == HdrSet(s5, "cache-control", <<"max-age=0">>)
        s7  == HdrSet(s6, "pragma", <<"no-cache">>)
    IN [threw |-> ref.threw, val |-> s7]

(***************************************************************************)
(* An AdvancedProxyEngine called directly.  eng holds the instance's       *)
(* lastRequestTime and requestCount, the applyRateLimit call in progress   *)
(* (waiting on its timer until wakeAt, with its minInterval), the clock at *)
(* each return of applyRateLimit (returned), and the last header call: op, *)
(* the header map and target URL passed, the map returned (out) and        *)
(* whether the call threw.                                                 *)
(***************************************************************************)
\* lastRequestTime = 0, the epoch: further back than any interval
LongAgo == -10

MaxCalls == 3

\* the callers that may each have one applyRateLimit call in flight
NumCallers == 3

Callers == 1 .. NumCallers

\* a caller's call: not made, waiting on its timer, or returned; read is
\* the lastRequestTime and countSeen the requestCount it found on entry
NotCalled == [pc |-> "idle", minInterval |-> 0, read |-> 0, countSeen |-> 0,
              startedAt |-> 0, wakeAt |-> 0, returnedAt |-> 0]

NoCall == [op |-> "none", headers |-> <<>>, targetUrl |-> UrlMissing,
           out |-> <<>>, threw |-> FALSE,
           lastRequestTime |-> LongAgo, requestCount |-> 0, waiting |-> FALSE,
           minInterval |-> 0, wakeAt |-> 0, returned |-> <<>>,
           inflight |-> [c \in Callers |-> NotCalled]]

\* eng after a header call
Call(op, headers, targetUrl, out, threw) ==
    [eng EXCEPT !.op = op, !.headers = headers, !.targetUrl = targetUrl,
                !.out = out, !.threw = threw]

FullSpoof(headers, targetUrl, draw) ==
    /\ \E f \in {fullSpoof(headers, targetUrl, draw)} :
          eng' = Call("fullSpoof", headers, targetUrl,
                      IF f.threw THEN <<>> ELSE f.val, f.threw)
    /\ UNCHANGED <<storeVars, reqs>>

RemoveTrackingHeaders(headers) ==
    /\ eng' = Call("removeTrackingHeaders", headers, UrlMissing,
                   removeTrackingHeaders(headers), FALSE)
    /\ UNCHANGED <<storeVars, reqs>>

RemoveSecurityHeaders(headers) ==
    /\ eng' = Call("removeSecurityHeaders", headers, UrlMissing,
                   removeSecurityHeaders(headers), FALSE)
    /\ UNCHANGED <<storeVars, reqs>>

\* removeTrackingHeaders, then removeSecurityHeaders on its result
StripHeaders(headers) ==
    /\ eng' = Call("strip", headers, UrlMissing,
                   removeSecurityHeaders(removeTrackingHeaders(headers)), FALSE)
    /\ UNCHANGED <<storeVars, reqs>>

\* the pair applied to the map the pair returned
StripAgain ==
    /\ eng.op = "strip"
    /\ eng' = Call("stripAgain", eng.out, UrlMissing,
                   removeSecurityHeaders(removeTrackingHeaders(eng.out)), FALSE)
    /\ UNCHANGED <<storeVars, reqs>>

(***************************************************************************)
(* applyRateLimit.  Times are whole milliseconds, as Date.now() gives and  *)
(* as the timer counts them.                                               *)
(***************************************************************************)
\* mutant of Delays: the delay is drawn from 0 up to maxMs
DelaysFromZero(minMs, maxMs) == 0 .. maxMs

\* addRandomDelay: Math.random() * (maxMs - minMs) + minMs with random < 1
Delays(minMs, maxMs) == IF maxMs > minMs THEN minMs .. (maxMs - 1) ELSE {minMs}

\* lastRequestTime = Date.now(); requestCount++; the promise resolves
RateLimitReturns(e, t) ==
    [e EXCEPT !.lastRequestTime = t, !.requestCount = @ + 1, !.waiting = FALSE,
              !.returned = Append(@, t)]

\* the call up to its await, or to its return when it does not wait
ApplyRateLimit(minInterval, delay) ==
    /\ ~eng.waiting
    /\ eng.requestCount < MaxCalls
    /\ LET timeSinceLastRequest == now - eng.lastRequestTime IN
       IF timeSinceLastRequest < minInterval
       THEN /\ delay \in Delays(minInterval - timeSinceLastRequest, minInterval)
            /\ eng' = [eng EXCEPT !.op = "applyRateLimit", !.waiting = TRUE,
                                  !.minInterval = minInterval,
                                  !.wakeAt = now + delay]
       ELSE /\ delay = 0
            /\ eng' = RateLimitReturns([eng EXCEPT !.op = "applyRateLimit",
                                                   !.minInterval = minInterval],
                                       now)
    /\ UNCHANGED <<storeVars, reqs>>

\* the timer fires, at its time or later, and the call returns
RateLimitResumes ==
    /\ eng.waiting
    /\ now >= eng.wakeAt
    /\ eng' = RateLimitReturns(eng, now)
    /\ UNCHANGED <<storeVars, reqs>>

(***************************************************************************)
(* applyRateLimit called by several callers that do not wait for one       *)
(* another.  JavaScript runs each call without interruption up to its      *)
(* await and again from the timer to the return, so those two pieces are   *)
(* the steps; calls interleave only at the await.                          *)
(***************************************************************************)
\* mutant of CallReturns: requestCount is written from the value read on entry
CallReturnsLostUpdate(e, c, t) ==
    [RateLimitReturns(e, t) EXCEPT !.requestCount = e.inflight[c].countSeen + 1,
                                   !.inflight[c].pc = "returned",
                                   !.inflight[c].returnedAt = t]

\* lines 187-188 for the call of caller c, and its promise resolves
CallReturns(e, c, t) ==
    [RateLimitReturns(e, t) EXCEPT !.inflight[c].pc = "returned",
                                   !.inflight[c].returnedAt = t]

\* lines 180-184 for caller c: up to the await, or to the return
CallApplyRateLimit(c, minInterval, delay) ==
    /\ eng.inflight[c].pc = "idle"
    /\ LET timeSinceLastRequest == now - eng.lastRequestTime
           entered == [eng EXCEPT !.op = "applyRateLimit",
                                  !.inflight[c].minInterval = minInterval,
                                  !.inflight[c].read = eng.lastRequestTime,
                                  !.inflight[c].countSeen = eng.requestCount,
                                  !.inflight[c].startedAt = now]
       IN IF timeSinceLastRequest < minInterval
          THEN /\ delay \in Delays(minInterval - timeSinceLastRequest, minInterval)
               /\ eng' = [entered EXCEPT !.inflight[c].pc = "waiting",
                                         !.inflight[c].wakeAt = now + delay]
          ELSE /\ delay = 0
               /\ eng' = CallReturns(entered, c, now)
    /\ UNCHANGED <<storeVars, reqs>>

\* the timer of caller c fires, at its time or later, and the call returns
CallResumes(c) ==
    /\ eng.inflight[c].pc = "waiting"
    /\ now >= eng.inflight[c].wakeAt
    /\ eng' = CallReturns(eng, c, now)
    /\ UNCHANGED <<storeVars, reqs>>

(***************************************************************************)
(* ProxyServer.  A passed config is a record that has the keys the caller  *)
(* wrote; userAgent is a header value or UndefinedArg; headers is          *)
(* [given, entries], entries being the Object.entries of the override map  *)
(* in order, and given = FALSE standing for undefined.                     *)
(***************************************************************************)
USER_AGENTS ==
    << <<"UA default chrome windows">>, <<"UA default chrome mac">>,
       <<"UA default chrome linux">>, <<"UA default firefox windows">>,
       <<"UA default safari mac">> >>

DEFAULT_STRIP_HEADERS ==
    << "x-forwarded-for", "x-forwarded-proto", "x-forwarded-host", "x-real-ip",
       "cf-connecting-ip", "cf-ray", "cf-ipcountry" >>

NoHeaders == [given |-> FALSE, entries |-> <<>>]

\* a header value in a condition: undefined and '' are falsy
Truthy(v) == v # UndefinedArg /\ v # <<>>

\* { userAgent: USER_AGENTS[random], stripHeaders: DEFAULT_STRIP_HEADERS, ...config }
ProxyServerConfig(config, draw) ==
    [targetUrl    |-> config.targetUrl,
     userAgent    |-> IF Has(config, "userAgent") THEN config.userAgent
                      ELSE USER_AGENTS[draw.defaultUa],
     stripHeaders |-> IF Has(config, "stripHeaders") THEN config.stripHeaders
                      ELSE DEFAULT_STRIP_HEADERS,
     headers      |-> IF Has(config, "headers") THEN config.headers ELSE NoHeaders]

\* Object.entries(config.headers).forEach: spoofedHeaders[key.toLowerCase()] = value
RECURSIVE ApplyOverrides(_, _, _)
ApplyOverrides(spoofed, entries, i) ==
    IF i > Len(entries) THEN spoofed
    ELSE ApplyOverrides(HdrSet(spoofed, toLowerCase(entries[i][1]), entries[i][2]),
                        entries, i + 1)

\* Object.entries(spoofedHeaders).forEach: req.headers[key.toLowerCase()] = value
\* (the keys of spoofed are in one case each, so the order does not matter)
UpdateHeaders(reqHeaders, spoofed) ==
    (CHOOSE r \in {[x \in {toLowerCase(k) : k \in DOMAIN h} |->
                       h[CHOOSE k \in DOMAIN h : toLowerCase(k) = x]] :
                   h \in {spoofed}} : TRUE) @@ reqHeaders

\* the request headers after modifyRequest, or threw when fullSpoof throws
modifyRequest(config, reqHeaders, draw) ==
    LET Modified(fs) ==
            LET s1 == IF config.headers.given
                      THEN ApplyOverrides(fs.val, config.headers.entries, 1)
                      ELSE fs.val
                s2 == IF Truthy(config.userAgent)
                      THEN HdrSet(s1, "user-agent", config.userAgent)
                      ELSE s1
            IN [threw   |-> fs.threw,
                headers |-> IF fs.threw THEN reqHeaders
                            ELSE UpdateHeaders(reqHeaders, s2)]
    IN CHOOSE r \in {Modified(fs) :
                      fs \in {fullSpoof(reqHeaders, config.targetUrl, draw)}} : TRUE

(***************************************************************************)
(* The response: statusCode, headers, body.  A body is nothing yet, empty, *)
(* a JSON object with the given fields, or the upstream's bytes.           *)
(***************************************************************************)
NoBody == [kind |-> "none", fields |-> {}]

EmptyBody == [kind |-> "empty", fields |-> {}]

JsonBody(fields) == [kind |-> "json", fields |-> fields]

UpstreamBody == [kind |-> "upstream", fields |-> {}]

\* the first bytes of the upstream's body
PartialBody == [kind |-> "partial", fields |-> {}]

\* those bytes followed by the text of a JSON object
PartialThenJson(fields) == [kind |-> "partial+json", fields |-> fields]

JsonHeaders == [x \in {"content-type"} |-> <<"application/json">>]

CorsHeaders ==
    [x \in {"access-control-allow-origin", "access-control-allow-methods",
            "access-control-allow-headers"} |->
        CASE x = "access-control-allow-origin"  -> <<"*">>
          [] x = "access-control-allow-methods" -> <<"GET, POST, PUT, DELETE, OPTIONS">>
          [] x = "access-control-allow-headers" -> <<"Content-Type, Authorization">>]

\* mutant of IsPreflight: no method is a preflight
IsPreflightNever(method) == FALSE

\* req.method === 'OPTIONS'
IsPreflight(method) == method = "OPTIONS"

(***************************************************************************)
(* handleRequest: what one call does to the request and the response.      *)
(* threw: an exception leaves the call; ended: res.end() was called;       *)
(* spoofCalls, upstreamCalls, rateLimitCalls: the calls of fullSpoof, of    *)
(* proxy.web and of the engine's applyRateLimit (each such call adds one   *)
(* to the engine's requestCount); target: the origin given to proxy.web.   *)
(***************************************************************************)
handleRequest(config, method, reqHeaders, draw) ==
    IF IsPreflight(method)
    THEN [threw |-> FALSE, ended |-> TRUE, statusCode |-> 200,
          resHeaders |-> CorsHeaders, body |-> EmptyBody,
          headers |-> reqHeaders, spoofCalls |-> 0, upstreamCalls |-> 0,
          rateLimitCalls |-> 0, target |-> <<>>]
    ELSE CHOOSE r \in
           {IF m.threw \/ ~ParseURL(config.targetUrl).ok
            THEN [threw |-> TRUE, ended |-> FALSE, statusCode |-> 0,
                  resHeaders |-> <<>>, body |-> NoBody,
                  headers |-> m.headers, spoofCalls |-> 1, upstreamCalls |-> 0,
                  rateLimitCalls |-> 0, target |-> <<>>]
            ELSE [threw |-> FALSE, ended |-> FALSE, statusCode |-> 0,
                  resHeaders |-> <<>>, body |-> NoBody,
                  headers |-> m.headers, spoofCalls |-> 1, upstreamCalls |-> 1,
                  rateLimitCalls |-> 0, target |-> Origin(config.targetUrl)] :
            m \in {modifyRequest(config, reqHeaders, draw)}} : TRUE

\* mutant of proxyRes: the fixed values are defaults, the upstream's win
proxyResDefaults(upstreamHeaders) ==
    LET h4 == upstreamHeaders @@ CorsHeaders @@
              ("cache-control" :> <<"no-cache, no-store, must-revalidate">>)
    IN HdrDelete(HdrDelete(HdrDelete(h4, "x-frame-options"),
                           "content-security-policy"),
                 "x-content-type-options")

\* the proxyRes listener on the upstream's response headers
proxyRes(upstreamHeaders) ==
    LET h1 == HdrSet(upstreamHeaders, "access-control-allow-origin", <<"*">>)
        h2 == HdrSet(h1, "access-control-allow-methods",
                     <<"GET, POST, PUT, DELETE, OPTIONS">>)
        h3 == HdrSet(h2, "access-control-allow-headers",
                     <<"Content-Type, Authorization">>)
        h4 == HdrSet(h3, "cache-control", <<"no-cache, no-store, must-revalidate">>)
    IN HdrDelete(HdrDelete(HdrDelete(h4, "x-frame-options"),
                           "content-security-policy"),
                 "x-content-type-options")

(***************************************************************************)
(* One HTTP request.  pc: new (not yet received), forwarded (proxy.web     *)
(* called, the upstream has not answered), streaming (the upstream's       *)
(* status, headers and first bytes are written to the client), ended       *)
(* (res.end() called), finished (the 'finish' event has been delivered),   *)
(* threw (handleRequest threw into a caller that has no catch).  received  *)
(* is req.headers as Node parsed them (lower-case names), headers is       *)
(* req.headers now; headersSent is res.headersSent; failed: the upstream   *)
(* call has failed; listening: a 'finish' listener that logs to the        *)
(* session is registered; sessionId 0 stands for no session id; config is  *)
(* what the caller passed to new ProxyServer; upstreamHeaders is what the  *)
(* upstream sent as response headers.                                      *)
(***************************************************************************)
NumReqs == 3

ReqIds == 1 .. NumReqs

\* the request of the specifications that follow one request alone
OneReq == {1}

NewRequest ==
    [pc |-> "new", route |-> "none", method |-> "none", url |-> UrlMissing,
     sessionId |-> 0, received |-> <<>>, headers |-> <<>>, spoofCalls |-> 0,
     upstreamCalls |-> 0, target |-> <<>>, statusCode |-> 0, resHeaders |-> <<>>,
     body |-> NoBody, listening |-> FALSE, startTime |-> 0, sessionCalls |-> 0,
     headersSent |-> FALSE, failed |-> FALSE, config |-> [targetUrl |-> UrlMissing],
     upstreamHeaders |-> <<>>, rateLimitCalls |-> 0, reqUrl |-> <<>>,
     outgoing |-> <<>>]

Routes == {"GET /proxy", "POST /proxy", "POST /api/proxy"}

\* mutant of ValidTarget: the route's new URL(url) never throws
ValidTargetAlways(url) == TRUE

\* the route's own new URL(url) returns
ValidTarget(url) == ParseURL(url).ok

\* !url: undefined or ''
UrlFalsy(url) == url.text = ""

\* req.url as the route's handler and handleRequest see it
InboundUrl(route, url) ==
    IF route = "GET /proxy" THEN <<"/proxy", "?", "url=" , url.text>>
    ELSE IF route = "POST /proxy" THEN <<"/proxy">>
    ELSE <<"/api/proxy">>

RootUrl == <<"/">>

\* what the route passes to new ProxyServer
RouteConfig(route, url, userAgent, headers) ==
    IF route = "GET /proxy"
    THEN [targetUrl |-> url, userAgent |-> userAgent]
    ELSE [targetUrl |-> url, userAgent |-> userAgent, headers |-> headers]

\* mutant of LooksUpSession: every route looks the session up
LooksUpSessionAlways(route, sessionId) == sessionId # 0

\* if (sessionId) session = sessionEngine.getSession(sessionId): /api/proxy only
LooksUpSession(route, sessionId) == route = "POST /api/proxy" /\ sessionId # 0

\* mutant of ListensForFinish: only POST /api/proxy registers the listener
ListensForFinishApiOnly(route, sessionId) ==
    route = "POST /api/proxy" /\ sessionId # 0

\* if (sessionId) res.on("finish", ...); a query sessionId is a string
ListensForFinish(route, sessionId) == sessionId # 0

\* res.status(statusCode).json({fields}) before or instead of the upstream call
Rejected(S, O, looked, statusCode, fields, reqHeaders, spoofCalls) ==
    [sessions |-> S, order |-> O, looked |-> looked, ended |-> TRUE,
     statusCode |-> statusCode, resHeaders |-> JsonHeaders,
     body |-> JsonBody(fields), headers |-> reqHeaders, spoofCalls |-> spoofCalls,
     upstreamCalls |-> 0, rateLimitCalls |-> 0, target |-> <<>>,
     listening |-> FALSE]

(***************************************************************************)
(* The three proxy routes: the store and the request after the handler     *)
(* returns.  Only POST /api/proxy looks the session up (getSession at t1,  *)
(* t2); looked tells whether it did.                                       *)
(***************************************************************************)
RouteOutcome(route, method, url, sessionId, userAgent, headers, reqHeaders, draw, S, O, t1, t2) ==
    IF UrlFalsy(url)
    THEN Rejected(S, O, FALSE, 400, {"error"}, reqHeaders, 0)
    ELSE IF ~ValidTarget(url)
    THEN Rejected(S, O, FALSE, 400, {"error", "details"}, reqHeaders, 0)
    ELSE LET look == LooksUpSession(route, sessionId)
             g    == IF look THEN getSession(S, O, sessionId, t1, t2)
                     ELSE [sessions |-> S, order |-> O, found |-> FALSE]
             Handled(h) ==
                 IF h.threw
                 THEN Rejected(g.sessions, g.order, look, 400, {"error", "details"},
                               h.headers, h.spoofCalls)
                 ELSE [sessions |-> g.sessions, order |-> g.order, looked |-> look,
                       ended |-> h.ended, statusCode |-> h.statusCode,
                       resHeaders |-> h.resHeaders, body |-> h.body,
                       headers |-> h.headers, spoofCalls |-> h.spoofCalls,
                       upstreamCalls |-> h.upstreamCalls,
                       rateLimitCalls |-> h.rateLimitCalls, target |-> h.target,
                       listening |-> ListensForFinish(route, sessionId)]
         IN IF look /\ ~g.found
            THEN Rejected(g.sessions, g.order, TRUE, 404, {"error"}, reqHeaders, 0)
            ELSE CHOOSE r \in
                   {Handled(h) :
                    h \in {handleRequest(
                               ProxyServerConfig(
                                   RouteConfig(route, url, userAgent, headers), draw),
                               method, reqHeaders, draw)}} : TRUE

ProxyRoute(rid, route, method, url, sessionId, userAgent, headers, reqHeaders, draw, d) ==
    /\ reqs[rid].pc = "new"
    /\ now + d <= MaxClock
    /\ \E o \in {RouteOutcome(route, method, url, sessionId, userAgent, headers,
                                reqHeaders, draw, sessions, order, now, now + d)} :
          /\ reqs' = [reqs EXCEPT ![rid] =
                 [pc |-> IF o.ended THEN "ended" ELSE "forwarded",
                  route |-> route, method |-> method, url |-> url,
                  sessionId |-> sessionId, received |-> reqHeaders,
                  headers |-> o.headers, spoofCalls |-> o.spoofCalls,
                  upstreamCalls |-> o.upstreamCalls,
                  rateLimitCalls |-> o.rateLimitCalls, target |-> o.target,
                  statusCode |-> o.statusCode, resHeaders |-> o.resHeaders,
                  body |-> o.body, listening |-> o.listening,
                  startTime |-> IF o.looked THEN now + d ELSE now,
                  sessionCalls |-> IF o.looked THEN 1 ELSE 0,
                  headersSent |-> o.ended, failed |-> FALSE,
                  config |-> RouteConfig(route, url, userAgent, headers),
                  upstreamHeaders |-> <<>>,
                  reqUrl |-> InboundUrl(route, url),
                  outgoing |-> IF o.upstreamCalls = 1
                               THEN setupOutgoing(o.target, InboundUrl(route, url))
                               ELSE <<>>]]
          /\ sessions' = o.sessions
          /\ order' = o.order
          /\ now' = IF o.looked THEN now + d ELSE now
          /\ ret' = IF o.looked
                    THEN [NoRet EXCEPT !.op = "getSession", !.id = sessionId,
                             !.val = IF sessionId \in DOMAIN o.sessions
                                     THEN "session" ELSE Undefined,
                             !.idle = IF sessionId \in DOMAIN sessions
                                      THEN now - sessions[sessionId].lastAccessedAt
                                      ELSE 0]
                    ELSE ret
    /\ UNCHANGED eng

(***************************************************************************)
(* handleRequest called by a server of its own, with no route around it:   *)
(* the config is what that caller passes, an exception is the caller's.    *)
(***************************************************************************)
HandleRequest(rid, method, config, reqHeaders, draw) ==
    /\ reqs[rid].pc = "new"
    /\ \E h \in {handleRequest(ProxyServerConfig(config, draw), method,
                                 reqHeaders, draw)} :
          reqs' = [reqs EXCEPT ![rid] =
              [NewRequest EXCEPT
                  !.pc = IF h.threw THEN "threw"
                         ELSE IF h.ended THEN "ended" ELSE "forwarded",
                  !.route = "handleRequest", !.method = method,
                  !.url = config.targetUrl, !.received = reqHeaders,
                  !.headers = h.headers, !.spoofCalls = h.spoofCalls,
                  !.upstreamCalls = h.upstreamCalls,
                  !.rateLimitCalls = h.rateLimitCalls, !.target = h.target,
                  !.statusCode = h.statusCode, !.resHeaders = h.resHeaders,
                  !.body = h.body, !.startTime = now,
                  !.headersSent = h.ended, !.config = config,
                  !.reqUrl = RootUrl,
                  !.outgoing = IF h.upstreamCalls = 1
                               THEN setupOutgoing(h.target, RootUrl) ELSE <<>>]]
    /\ UNCHANGED storeVars
    /\ UNCHANGED eng

(***************************************************************************)
(* handleWebSocket, called by a server's 'upgrade' handler: no header      *)
(* transform, new URL may throw to the caller, the upgrade is handed to    *)
(* proxy.ws with the origin as target.                                     *)
(***************************************************************************)
handleWebSocket(config, reqUrl) ==
    IF ~ParseURL(config.targetUrl).ok
    THEN [threw |-> TRUE, upstreamCalls |-> 0, target |-> <<>>]
    ELSE [threw |-> FALSE, upstreamCalls |-> 1, target |-> Origin(config.targetUrl)]

HandleWebSocket(rid, config, reqUrl, reqHeaders) ==
    /\ reqs[rid].pc = "new"
    /\ \E h \in {handleWebSocket(config, reqUrl)} :
          reqs' = [reqs EXCEPT ![rid] =
              [NewRequest EXCEPT
                  !.pc = IF h.threw THEN "threw" ELSE "upgraded",
                  !.route = "handleWebSocket", !.method = "GET",
                  !.url = config.targetUrl, !.received = reqHeaders,
                  !.headers = reqHeaders, !.upstreamCalls = h.upstreamCalls,
                  !.target = h.target, !.startTime = now, !.config = config,
                  !.reqUrl = reqUrl,
                  !.outgoing = IF h.upstreamCalls = 1
                               THEN setupOutgoing(h.target, reqUrl) ELSE <<>>]]
    /\ UNCHANGED storeVars
    /\ UNCHANGED eng

(***************************************************************************)
(* The upstream answers: http-proxy runs the proxyRes listener, copies     *)
(* status and headers to the response and starts piping the body.          *)
(***************************************************************************)
UpstreamResponds(rid, statusCode, upstreamHeaders) ==
    /\ reqs[rid].pc = "forwarded"
    /\ reqs' = [reqs EXCEPT ![rid].pc = "streaming",
                            ![rid].statusCode = statusCode,
                            ![rid].resHeaders = proxyRes(upstreamHeaders),
                            ![rid].body = PartialBody,
                            ![rid].upstreamHeaders = upstreamHeaders,
                            ![rid].headersSent = TRUE]
    /\ UNCHANGED storeVars
    /\ UNCHANGED eng

(***************************************************************************)
(* The upstream's body ends: the pipe ends the response.                   *)
(***************************************************************************)
UpstreamEnds(rid) ==
    /\ reqs[rid].pc = "streaming"
    /\ reqs' = [reqs EXCEPT ![rid].pc = "ended", ![rid].body = UpstreamBody]
    /\ UNCHANGED storeVars
    /\ UNCHANGED eng

(***************************************************************************)
(* The 'error' listener: writeHead(502) unless the headers are sent, then  *)
(* res.end(JSON.stringify({error, message})) after what was written.       *)
(***************************************************************************)
\* mutant of errorListener: the listener never ends the response
errorListenerHangs(r) == [r EXCEPT !.pc = "hung", !.failed = TRUE]

errorListener(r) ==
    [r EXCEPT !.pc = "ended",
              !.failed = TRUE,
              !.statusCode = IF ~r.headersSent THEN 502 ELSE @,
              !.resHeaders = IF ~r.headersSent THEN JsonHeaders ELSE @,
              !.headersSent = TRUE,
              !.body = IF r.body = NoBody THEN JsonBody({"error", "message"})
                       ELSE PartialThenJson({"error", "message"})]

(***************************************************************************)
(* The upstream call fails (connection error, timeout, reset), before the  *)
(* upstream answered or while its body is piped.                           *)
(***************************************************************************)
UpstreamFails(rid) ==
    /\ reqs[rid].pc \in {"forwarded", "streaming"}
    /\ reqs' = [reqs EXCEPT ![rid] = errorListener(reqs[rid])]
    /\ UNCHANGED storeVars
    /\ UNCHANGED eng

(***************************************************************************)
(* The response is flushed: 'finish' runs the route's listener, if any.    *)
(***************************************************************************)
Finish(rid, d) ==
    /\ reqs[rid].pc = "ended"
    /\ now + d <= MaxClock
    /\ reqs' = [reqs EXCEPT ![rid].pc = "finished",
                            ![rid].sessionCalls =
                                IF reqs[rid].listening THEN @ + 1 ELSE @]
    /\ IF reqs[rid].listening
       THEN LET r == reqs[rid]
                l == logRequest(sessions, order, r.sessionId, r.method, r.url.text,
                                r.statusCode, now - r.startTime, now, now + d)
            IN /\ sessions' = l.sessions
               /\ order' = l.order
               /\ now' = now + d
               /\ ret' = [NoRet EXCEPT !.op = "logRequest", !.id = r.sessionId,
                            !.val = l.val, !.details.requestCount = l.pushed,
                            !.entry = RequestLog(now + d, r.method, r.url.text,
                                                 r.statusCode, now - r.startTime)]
       ELSE UNCHANGED storeVars
    /\ UNCHANGED eng

(***************************************************************************)
(* The session store driven by its callers.                                *)
(***************************************************************************)
DefaultDraw == [browser |-> 1, timezone |-> 1, screen |-> 1, depth |-> 1,
                canvas |-> "canvas0"]

Init ==
    /\ sessions = <<>>
    /\ order = <<>>
    /\ now = 0
    /\ ret = NoRet
    /\ reqs = [r \in ReqIds |-> NewRequest]
    /\ eng = NoCall

Next ==
    \/ \E id \in SessionIds, d \in Drift : CreateSession(id, <<>>, DefaultDraw, d)
    \/ \E id \in SessionIds, d \in Drift : GetSession(id, d)
    \/ \E id \in SessionIds, d \in Drift :
          SetCookie(id, <<"sid">>, "abc123", UndefinedArg, d)
    \/ \E id \in SessionIds : DeleteSession(id)
    \/ ClearAllSessions
    \/ Tick

Spec == Init /\ [][Next]_vars

(***************************************************************************)
(* Every operation of the store, on a clock that stands still.             *)
(***************************************************************************)
NextOps ==
    \/ \E id \in SessionIds : CreateSession(id, <<>>, DefaultDraw, 0)
    \/ \E id \in SessionIds : GetSession(id, 0)
    \/ \E id \in SessionIds : SetCookie(id, <<"sid">>, "abc123", UndefinedArg, 0)
    \/ \E id \in SessionIds : GetCookie(id, <<"sid">>, UndefinedArg, 0)
    \/ \E id \in SessionIds : SetLocalStorage(id, <<"k">>, "v", 0)
    \/ \E id \in SessionIds : GetLocalStorage(id, <<"k">>, 0)
    \/ \E id \in SessionIds : LogRequest(id, "GET", "u", 200, 0, 0)
    \/ \E id \in SessionIds : GetSessionDetails(id, 0)
    \/ \E id \in SessionIds : DeleteSession(id)
    \/ GetStats
    \/ ClearAllSessions

SpecOps == Init /\ [][NextOps]_vars

(***************************************************************************)
(* One session and its request history.                                    *)
(***************************************************************************)
HistIds == {1}

StatusCodes == {200, 404, 502}

NextHist ==
    \/ \E id \in HistIds, d \in Drift : CreateSession(id, <<>>, DefaultDraw, d)
    \/ \E id \in HistIds, c \in StatusCodes, d \in Drift :
          LogRequest(id, "GET", "u", c, 0, d)
    \/ \E id \in HistIds : DeleteSession(id)
    \/ Tick

SpecHist == Init /\ [][NextHist]_vars

(***************************************************************************)
(* One session, its cookies and its localStorage.                          *)
(***************************************************************************)
DataIds == {1}

CookieNames == {<<"sid">>, ProtoKey}

CookieDomains == {UndefinedArg, <<"example.com">>}

CookieValues == {"abc123", "xyz"}

StorageKeys == {<<"k">>, ProtoKey}

NextData ==
    \/ \E id \in DataIds : CreateSession(id, <<>>, DefaultDraw, 0)
    \/ \E id \in DataIds, n \in CookieNames, v \in CookieValues, dom \in CookieDomains :
          SetCookie(id, n, v, dom, 0)
    \/ \E id \in DataIds, n \in CookieNames, dom \in CookieDomains :
          GetCookie(id, n, dom, 0)
    \/ \E id \in DataIds, k \in StorageKeys, v \in CookieValues :
          SetLocalStorage(id, k, v, 0)
    \/ \E id \in DataIds, k \in StorageKeys : GetLocalStorage(id, k, 0)
    \/ \E id \in DataIds : GetSessionDetails(id, 0)

SpecData == Init /\ [][NextData]_vars

(***************************************************************************)
(* Cookies of one session under names with and without a colon, with and   *)
(* without a domain.                                                       *)
(***************************************************************************)
PairNames == {<<"b">>, <<"a", ":", "b">>}

PairDomains == {UndefinedArg, <<"a">>}

NextCookie ==
    \/ CreateSession(1, <<>>, DefaultDraw, 0)
    \/ \E n \in PairNames, v \in CookieValues, dom \in PairDomains :
          SetCookie(1, n, v, dom, 0)
    \/ \E n \in PairNames, dom \in PairDomains : GetCookie(1, n, dom, 0)

SpecCookie == Init /\ [][NextCookie]_vars

(***************************************************************************)
(* Two sessions created with and without fingerprint overrides, and every  *)
(* operation of the store on them.                                         *)
(***************************************************************************)
FpIds == {1, 2}

OtherDraw == [browser |-> 3, timezone |-> 2, screen |-> 2, depth |-> 2,
              canvas |-> "canvas1"]

FpDraws == {DefaultDraw, OtherDraw}

\* Partial<BrowserFingerprint>: none, falsy values, ordinary values
FpOverrides ==
    { <<>>,
      [userAgent |-> ""],
      [colorDepth |-> 0],
      [webRTC |-> FALSE],
      [userAgent |-> "Custom/1.0", hardwareConcurrency |-> 2, webRTC |-> TRUE] }

\* the overrides with one draw, each draw without overrides
FpInputs ==
    {[custom |-> c, draw |-> DefaultDraw] : c \in FpOverrides}
    \cup {[custom |-> <<>>, draw |-> dr] : dr \in FpDraws}

NextFp ==
    \/ \E id \in FpIds, in \in FpInputs : CreateSession(id, in.custom, in.draw, 0)
    \/ \E id \in FpIds : GetSession(id, 0)
    \/ \E id \in FpIds : SetCookie(id, <<"sid">>, "abc123", UndefinedArg, 0)
    \/ \E id \in FpIds : GetCookie(id, <<"sid">>, UndefinedArg, 0)
    \/ \E id \in FpIds : SetLocalStorage(id, <<"k">>, "v", 0)
    \/ \E id \in FpIds : GetLocalStorage(id, <<"k">>, 0)
    \/ \E id \in FpIds : LogRequest(id, "GET", "u", 200, 0, 0)
    \/ \E id \in FpIds : GetSessionDetails(id, 0)
    \/ GetStats

SpecFp == Init /\ [][NextFp]_vars

(***************************************************************************)
(* Two sessions and every operation of the store, while time passes        *)
(* between the operations.                                                 *)
(***************************************************************************)
TouchIds == {1, 2}

NextTouch ==
    \/ \E id \in TouchIds : CreateSession(id, <<>>, DefaultDraw, 0)
    \/ \E id \in TouchIds : GetSession(id, 0)
    \/ \E id \in TouchIds : SetCookie(id, <<"sid">>, "abc123", UndefinedArg, 0)
    \/ \E id \in TouchIds : GetCookie(id, <<"sid">>, UndefinedArg, 0)
    \/ \E id \in TouchIds : SetLocalStorage(id, <<"k">>, "v", 0)
    \/ \E id \in TouchIds : GetLocalStorage(id, <<"k">>, 0)
    \/ \E id \in TouchIds : LogRequest(id, "GET", "u", 200, 0, 0)
    \/ \E id \in TouchIds : GetSessionDetails(id, 0)
    \/ \E id \in TouchIds : DeleteSession(id)
    \/ GetStats
    \/ Tick

SpecTouch == Init /\ [][NextTouch]_vars

(***************************************************************************)
(* The proxy pipeline: requests arrive at the three routes or at a bare    *)
(* handleRequest, the upstream answers or fails, the response is flushed;  *)
(* the one session is created and deleted around them and time passes.     *)
(***************************************************************************)
ProxyUrls == {UrlMissing, UrlNotAUrl, UrlNoHost, UrlExample}

\* no session id, the id the store may hold, an id the store never holds
ProxySessionIds == {0, 1, 2}

ProxyDraw == [ua |-> 1, lang |-> 1, refPath |-> 1, defaultUa |-> 1]

RouteMethods(route) == IF route = "GET /proxy" THEN {"GET"} ELSE {"POST"}

ClientHeaders ==
    ("host" :> <<"localhost:3000">>) @@ ("user-agent" :> <<"curl/8.0">>) @@
    ("x-forwarded-for" :> <<"10.0.0.1">>)

UpstreamHeaders ==
    ("content-type" :> <<"text/html">>) @@ ("x-frame-options" :> <<"DENY">>)

NextProxy ==
    \/ CreateSession(1, <<>>, DefaultDraw, 0)
    \/ DeleteSession(1)
    \/ Tick
    \/ \E rid \in OneReq, route \in Routes, url \in ProxyUrls,
          sessionId \in ProxySessionIds, d \in Drift :
          \E method \in RouteMethods(route) :
             ProxyRoute(rid, route, method, url, sessionId, UndefinedArg,
                        NoHeaders, ClientHeaders, ProxyDraw, d)
    \/ \E rid \in OneReq, method \in {"OPTIONS", "GET"},
          url \in {UrlNotAUrl, UrlExample} :
          HandleRequest(rid, method, [targetUrl |-> url], ClientHeaders, ProxyDraw)
    \/ \E rid \in OneReq, statusCode \in {200, 404} :
          UpstreamResponds(rid, statusCode, UpstreamHeaders)
    \/ \E rid \in OneReq : UpstreamEnds(rid)
    \/ \E rid \in OneReq : UpstreamFails(rid)
    \/ \E rid \in OneReq, d \in Drift : Finish(rid, d)

SpecProxy == Init /\ [][NextProxy]_vars

(***************************************************************************)
(* The header pipeline alone: requests with every combination of caller    *)
(* user agent, caller header overrides and received headers, through the   *)
(* routes and through a ProxyServer constructed directly.                  *)
(***************************************************************************)
Overrides(entries) == [given |-> TRUE, entries |-> entries]

CallerHeaders ==
    { NoHeaders,
      Overrides(<<>>),
      Overrides(<< <<"X-Custom", <<"one">> >> >>),
      Overrides(<< <<"User-Agent", <<"HeaderAgent">> >> >>),
      Overrides(<< <<"X-Forwarded-For", <<"1.2.3.4">> >>, <<"accept", <<>> >> >>),
      Overrides(<< <<"X-Custom", <<"one">> >>, <<"x-custom", <<"two">> >> >>) }

CallerAgents == {UndefinedArg, <<>>, <<"CallerAgent">>}

BrowserHeaders ==
    ("host" :> <<"localhost:3000">>) @@ ("user-agent" :> <<"Mozilla/5.0">>) @@
    ("cf-ray" :> <<"8a1b2c3d">>) @@ ("referer" :> <<"http://intranet/">>) @@
    ("cookie" :> <<"a=1">>)

ReceivedHeaders == {ClientHeaders, BrowserHeaders}

\* the configs a direct caller writes: with and without each optional key
DirectConfigs ==
    {[targetUrl |-> UrlExample]}
    \cup {[targetUrl |-> UrlExample, userAgent |-> ua] : ua \in CallerAgents}
    \cup {[targetUrl |-> UrlOther, headers |-> h] : h \in CallerHeaders}
    \cup {[targetUrl |-> UrlExample, userAgent |-> ua, headers |-> h] :
             ua \in CallerAgents, h \in CallerHeaders}

NextHeaders ==
    \/ \E rid \in OneReq, route \in Routes, ua \in CallerAgents, h \in CallerHeaders,
          received \in ReceivedHeaders :
          \E method \in RouteMethods(route) :
             ProxyRoute(rid, route, method, UrlExample, 0, ua, h, received,
                        ProxyDraw, 0)
    \/ \E rid \in OneReq, method \in {"GET", "POST", "OPTIONS"},
          config \in DirectConfigs, received \in ReceivedHeaders :
          HandleRequest(rid, method, config, received, ProxyDraw)

SpecHeaders == Init /\ [][NextHeaders]_vars

(***************************************************************************)
(* The engine's header transforms on their own, over header maps whose     *)
(* names come in lower, upper and mixed case, target URLs and draws.       *)
(***************************************************************************)
EmptyHeaders == [x \in {} |-> <<>>]

MixedCaseHeaders ==
    ("X-Forwarded-For" :> <<"10.0.0.1">>) @@ ("CF-RAY" :> <<"8a1b2c3d">>) @@
    ("content-security-policy" :> <<"default-src 'self'">>) @@
    ("accept" :> <<"*/*">>)

UnlistedHeaders ==
    ("host" :> <<"localhost:3000">>) @@ ("cookie" :> <<"a=1">>) @@
    ("X-Custom" :> <<"one">>)

ListedHeaders ==
    ("x-real-ip" :> <<"10.0.0.2">>) @@ ("X-REAL-IP" :> <<"10.0.0.3">>) @@
    ("x-frame-options" :> <<"DENY">>) @@ ("REFERRER-POLICY" :> <<"no-referrer">>) @@
    ("Strict-Transport-Security" :> <<"max-age=1">>)

EngineHeaders ==
    {EmptyHeaders, ClientHeaders, BrowserHeaders, MixedCaseHeaders, UnlistedHeaders,
     ListedHeaders}

EngineUrls == {UrlNotAUrl, UrlExample, UrlOther, UrlMailto}

EngineDraws == [ua : {1, 10}, lang : {1, 3}, refPath : 1 .. 4]

NextEngine ==
    \/ \E h \in EngineHeaders, u \in EngineUrls, draw \in EngineDraws :
          FullSpoof(h, u, draw)
    \/ \E h \in EngineHeaders : RemoveTrackingHeaders(h)
    \/ \E h \in EngineHeaders : RemoveSecurityHeaders(h)
    \/ \E h \in EngineHeaders : StripHeaders(h)
    \/ StripAgain

SpecEngine == Init /\ [][NextEngine]_vars

(***************************************************************************)
(* applyRateLimit called again and again on one engine, each call after    *)
(* the one before has returned, while time passes.                         *)
(***************************************************************************)
MinIntervals == {0, 1, 2, 3}

NextRate ==
    \/ \E minInterval \in MinIntervals, delay \in 0 .. MaxClock :
          ApplyRateLimit(minInterval, delay)
    \/ RateLimitResumes
    \/ Tick

SpecRate == Init /\ [][NextRate]_vars

(***************************************************************************)
(* Several callers of applyRateLimit on one engine, while time passes.     *)
(***************************************************************************)
RaceIntervals == {1, 2}

NextRace ==
    \/ \E c \in Callers, minInterval \in RaceIntervals, delay \in 0 .. MaxClock :
          CallApplyRateLimit(c, minInterval, delay)
    \/ \E c \in Callers : CallResumes(c)
    \/ Tick

SpecRace == Init /\ [][NextRace]_vars

(***************************************************************************)
(* Several requests bound to one session, in flight together: they arrive, *)
(* are answered or fail and complete in any order, while cookies and       *)
(* localStorage of the session are set.                                    *)
(***************************************************************************)
NextBound ==
    \/ DOMAIN sessions = {} /\ CreateSession(1, <<>>, DefaultDraw, 0)
    \/ \E rid \in ReqIds :
          /\ 1 \in DOMAIN sessions
          /\ ProxyRoute(rid, "GET /proxy", "GET", UrlExample, 1, UndefinedArg, NoHeaders,
                        ClientHeaders, ProxyDraw, 0)
    \/ \E rid \in ReqIds : UpstreamResponds(rid, 200, UpstreamHeaders)
    \/ \E rid \in ReqIds : UpstreamEnds(rid)
    \/ \E rid \in ReqIds : UpstreamFails(rid)
    \/ \E rid \in ReqIds : Finish(rid, 0)
    \/ SetCookie(1, <<"sid">>, "abc123", UndefinedArg, 0)
    \/ SetLocalStorage(1, <<"k">>, "v", 0)

SpecBound == Init /\ [][NextBound]_vars

(***************************************************************************)
(* Targets: requests through the routes and WebSocket upgrades, for        *)
(* target URLs with and without port, path and query.                      *)
(***************************************************************************)
TargetUrls == {UrlExample, UrlOther, UrlMailto, UrlNotAUrl}

UpgradeUrls == {<<"/">>, <<"/socket">>, <<"/chat", "?", "room=1">>}

TwoReqs == {1, 2}

NextTarget ==
    \/ \E rid \in TwoReqs, route \in Routes, url \in TargetUrls :
          \E method \in RouteMethods(route) :
             ProxyRoute(rid, route, method, url, 0, UndefinedArg, NoHeaders,
                        ClientHeaders, ProxyDraw, 0)
    \/ \E rid \in TwoReqs, url \in TargetUrls, reqUrl \in UpgradeUrls :
          HandleWebSocket(rid, [targetUrl |-> url], reqUrl, ClientHeaders)
    \/ \E rid \in TwoReqs : UpstreamResponds(rid, 200, UpstreamHeaders)
    \/ \E rid \in TwoReqs : UpstreamEnds(rid)
    \/ \E rid \in TwoReqs : UpstreamFails(rid)
    \/ \E rid \in TwoReqs : Finish(rid, 0)

SpecTarget == Init /\ [][NextTarget]_vars

(***************************************************************************)
(* The same with a fair upstream and event loop: a forwarded request is    *)
(* answered or fails (timeout and proxyTimeout bound the wait), a piped    *)
(* body ends or fails, and an ended response is flushed.                   *)
(***************************************************************************)
FairUpstream ==
    \A rid \in ReqIds :
       /\ WF_vars(UpstreamResponds(rid, 200, UpstreamHeaders) \/ UpstreamFails(rid))
       /\ WF_vars(UpstreamEnds(rid) \/ UpstreamFails(rid))
       /\ WF_vars(Finish(rid, 0))

SpecBoundFair == Init /\ [][NextBound]_vars /\ FairUpstream

(***************************************************************************)
(* One request bound to session 1 while sessions are created (evicting at  *)
(* capacity), deleted and cleared around it, and time passes.              *)
(***************************************************************************)
NextGone ==
    \/ \E id \in SessionIds : CreateSession(id, <<>>, DefaultDraw, 0)
    \/ DeleteSession(1)
    \/ ClearAllSessions
    \/ Tick
    \/ \E rid \in OneReq, route \in Routes :
          \E method \in RouteMethods(route) :
             ProxyRoute(rid, route, method, UrlExample, 1, UndefinedArg, NoHeaders,
                        ClientHeaders, ProxyDraw, 0)
    \/ \E rid \in OneReq : UpstreamResponds(rid, 200, UpstreamHeaders)
    \/ \E rid \in OneReq : UpstreamEnds(rid)
    \/ \E rid \in OneReq : UpstreamFails(rid)
    \/ \E rid \in OneReq : Finish(rid, 0)

SpecGone == Init /\ [][NextGone]_vars

(***************************************************************************)
(* The response side: forwarded requests whose upstream answers with one   *)
(* of several header maps, then ends or fails.                             *)
(***************************************************************************)
UpstreamCors ==
    ("content-type" :> <<"application/json">>) @@
    ("access-control-allow-origin" :> <<"https://app.example.com">>) @@
    ("access-control-allow-methods" :> <<"GET">>) @@
    ("access-control-allow-headers" :> <<"X-Token">>) @@
    ("cache-control" :> <<"public, max-age=3600">>)

UpstreamSecure ==
    ("content-type" :> <<"text/html">>) @@
    ("content-security-policy" :> <<"default-src 'self'">>) @@
    ("x-content-type-options" :> <<"nosniff">>) @@
    ("x-xss-protection" :> <<"1; mode=block">>) @@
    ("strict-transport-security" :> <<"max-age=31536000">>) @@
    ("referrer-policy" :> <<"no-referrer">>)

UpstreamPlain == ("content-type" :> <<"text/plain">>)

UpstreamHeaderMaps == {UpstreamHeaders, UpstreamCors, UpstreamSecure, UpstreamPlain}

NextResponse ==
    \/ \E rid \in OneReq, route \in Routes :
          \E method \in RouteMethods(route) :
             ProxyRoute(rid, route, method, UrlExample, 0, UndefinedArg, NoHeaders,
                        ClientHeaders, ProxyDraw, 0)
    \/ \E rid \in OneReq, statusCode \in {200, 301, 404, 500},
          h \in UpstreamHeaderMaps : UpstreamResponds(rid, statusCode, h)
    \/ \E rid \in OneReq : UpstreamEnds(rid)
    \/ \E rid \in OneReq : UpstreamFails(rid)
    \/ \E rid \in OneReq : Finish(rid, 0)

SpecResponse == Init /\ [][NextResponse]_vars

(***************************************************************************)
(* Properties of the session store.                                        *)
(***************************************************************************)
Live == DOMAIN sessions

\* C1: after any sequence of store operations the number of live sessions
\* is at most MAX_SESSIONS.
C1_CapacityNeverExceeded == Cardinality(Live) <= MAX_SESSIONS

C1_Witness ==
    /\ ret.op = "createSession"
    /\ ret.evicted # {}
    /\ Cardinality(Live) = MAX_SESSIONS

\* C2: a createSession on a full store deletes exactly one session, one
\* whose lastAccessedAt is at most that of every session live before the
\* call, and no other id leaves the store; a createSession on a store that
\* is not full deletes none.
C2_EvictsLeastRecentlyAccessed ==
    [][ret'.op = "createSession" =>
         IF Cardinality(Live) >= MAX_SESSIONS
         THEN /\ Cardinality(ret'.evicted) = 1
              /\ \A v \in ret'.evicted :
                    /\ v \in Live
                    /\ \A o \in Live :
                          sessions[v].lastAccessedAt <= sessions[o].lastAccessedAt
                    /\ v \in DOMAIN sessions' => v = ret'.id
              /\ Live \ DOMAIN sessions' \subseteq ret'.evicted
         ELSE /\ ret'.evicted = {}
              /\ Live \subseteq DOMAIN sessions']_vars

C2_Witness ==
    /\ ret.op = "createSession"
    /\ ret.evicted # {}
    /\ ret.id \notin ret.evicted
    /\ \E o \in Live \ {ret.id} : sessions[o].lastAccessedAt > sessions[o].createdAt

\* C3: a getSession made more than SESSION_TIMEOUT after the session's
\* previous lastAccessedAt deletes the session and returns undefined.
C3_StaleReadDeletes ==
    [][(/\ ret'.op = "getSession"
        /\ ret'.id \in Live
        /\ now - sessions[ret'.id].lastAccessedAt > SESSION_TIMEOUT)
       => (ret'.id \notin DOMAIN sessions' /\ ret'.val = Undefined)]_vars

\* C4: getSession of an id that is not live returns undefined and leaves it
\* not live; an id becomes live only by createSession returning it (so an id
\* never returned, deleted or cleared stays not live until then);
\* deleteSession leaves its id not live and returns true exactly when the id
\* was live; clearAllSessions leaves no id live.
C4_NotFoundUnlessIssued ==
    [][/\ (ret'.op = "getSession" /\ ret'.id \notin Live)
             => (ret'.val = Undefined /\ ret'.id \notin DOMAIN sessions')
       /\ \A id \in SessionIds :
             (id \notin Live /\ id \in DOMAIN sessions')
             => (ret'.op = "createSession" /\ ret'.id = id)
       /\ ret'.op = "deleteSession"
             => /\ ret'.id \notin DOMAIN sessions'
                /\ (ret'.val = "true") <=> (ret'.id \in Live)
       /\ ret'.op = "clearAllSessions" => DOMAIN sessions' = {}]_vars

C4_Witness ==
    /\ ret.op = "getSession"
    /\ ret.val = Undefined
    /\ ret.id \notin Live
    /\ Live # {}

\* C5: a requestHistory never holds more than HISTORY_LIMIT entries, and a
\* logRequest on a live session leaves the entries the history held followed
\* by the new entry, cut to the last HISTORY_LIMIT of them: after n appends
\* the history is the last min(n, HISTORY_LIMIT) appended entries in order.
C5_HistoryKeepsMostRecent ==
    /\ [](\A id \in Live : Len(sessions[id].requestHistory) <= HISTORY_LIMIT)
    /\ [][
          /\ (ret'.op = "logRequest" /\ ret'.val = "true") =>
                LET all == Append(sessions[ret'.id].requestHistory, ret'.entry)
                    h   == sessions'[ret'.id].requestHistory
                    n   == IF Len(all) < HISTORY_LIMIT THEN Len(all)
                           ELSE HISTORY_LIMIT
                IN  /\ Len(h) = n
                    /\ \A i \in 1 .. n : h[i] = all[Len(all) - n + i]
          /\ ret'.op = "createSession" => sessions'[ret'.id].requestHistory = <<>>
          /\ \A id \in Live \cap DOMAIN sessions' :
                sessions'[id].requestHistory # sessions[id].requestHistory
                => (ret'.op \in {"logRequest", "createSession"} /\ ret'.id = id)
       ]_vars

C5_Witness ==
    /\ ret.op = "logRequest"
    /\ ret.val = "true"
    /\ ret.details.requestCount = HISTORY_LIMIT + 1
    /\ Len(sessions[ret.id].requestHistory) = HISTORY_LIMIT
    /\ sessions[ret.id].requestHistory[1].statusCode = 404
    /\ sessions[ret.id].requestHistory[HISTORY_LIMIT].statusCode = 502
    /\ sessions[ret.id].requestHistory[HISTORY_LIMIT].timestamp
          > sessions[ret.id].createdAt

\* C6: createSession returns an id no live session has, and leaves every
\* live session other than the evicted one as it was.
C6_FreshIdNoOverwrite ==
    [][ret'.op = "createSession" =>
         /\ ret'.id \notin Live
         /\ \A o \in Live \ ret'.evicted :
               o \in DOMAIN sessions' /\ sessions'[o] = sessions[o]]_vars

\* C7: on an id that is not live, setCookie, setLocalStorage and logRequest
\* return false, getCookie and getLocalStorage return undefined,
\* getSessionDetails returns null and deleteSession returns false, and the
\* store is left as it was.
C7_MissingSessionDegrades ==
    [][ret'.id \notin Live =>
         /\ ret'.op \in {"setCookie", "setLocalStorage", "logRequest", "deleteSession"}
               => ret'.val = "false"
         /\ ret'.op \in {"getCookie", "getLocalStorage"} => ret'.val = Undefined
         /\ ret'.op = "getSessionDetails" => ret'.val = "null"
         /\ ret'.op \in {"setCookie", "setLocalStorage", "logRequest", "deleteSession",
                         "getCookie", "getLocalStorage", "getSessionDetails"}
               => (sessions' = sessions /\ order' = order)]_vars

C7_Witness ==
    /\ ret.op = "logRequest"
    /\ ret.val = "false"
    /\ ret.id \notin Live
    /\ Live # {}

\* C8: a getCookie that follows a successful setCookie with the same id,
\* name and domain returns the value set, a getSessionDetails that follows
\* a successful setCookie reports a cookieCount that counts the key set (at
\* least 1), and the same holds of setLocalStorage, getLocalStorage and
\* localStorageCount.
C8_SetThenGet ==
    [][/\ (/\ ret.op = "setCookie" /\ ret.val = "true"
           /\ ret'.op = "getCookie" /\ ret'.id = ret.id
           /\ ret'.args.name = ret.args.name
           /\ ret'.args.domain = ret.args.domain)
          => ret'.val = ret.args.value
       /\ (/\ ret.op = "setLocalStorage" /\ ret.val = "true"
           /\ ret'.op = "getLocalStorage" /\ ret'.id = ret.id
           /\ ret'.args.name = ret.args.name)
          => ret'.val = ret.args.value
       /\ (/\ ret.op = "setCookie" /\ ret.val = "true"
           /\ ret'.op = "getSessionDetails" /\ ret'.id = ret.id)
          => ret'.details.cookieCount >= 1
       /\ (/\ ret.op = "setLocalStorage" /\ ret.val = "true"
           /\ ret'.op = "getSessionDetails" /\ ret'.id = ret.id)
          => ret'.details.localStorageCount >= 1]_vars


(***************************************************************************)
(* Properties of the proxy pipeline.                                       *)
(***************************************************************************)
Handled(rid) == reqs[rid].pc # "new"

\* C9: an OPTIONS request handled by handleRequest is answered with status
\* 200, exactly the three access-control-allow-* headers and an empty body,
\* with no call of proxy.web and no header spoofing: its headers stay as
\* received.
C9_PreflightAnsweredLocally ==
    \A rid \in ReqIds :
        (Handled(rid) /\ reqs[rid].method = "OPTIONS") =>
            /\ reqs[rid].pc \in {"ended", "finished"}
            /\ reqs[rid].statusCode = 200
            /\ reqs[rid].resHeaders = CorsHeaders
            /\ reqs[rid].body = EmptyBody
            /\ reqs[rid].upstreamCalls = 0
            /\ reqs[rid].spoofCalls = 0
            /\ reqs[rid].headers = reqs[rid].received

C9_Witness ==
    \E rid \in ReqIds :
        /\ reqs[rid].route = "handleRequest"
        /\ reqs[rid].method = "OPTIONS"
        /\ reqs[rid].pc = "finished"
        /\ reqs[rid].statusCode = 200
        /\ "x-forwarded-for" \in DOMAIN reqs[rid].headers

\* the url is missing or is not a well-formed absolute URL
BadUrl(url) == url.text = "" \/ url.scheme = "" \/ url = UrlNoHost

BadUrlRequest(r) == r.route \in Routes /\ BadUrl(r.url)

\* C10: a request to GET /proxy, POST /proxy or POST /api/proxy whose url is
\* missing or malformed is answered 400 with an error field; proxy.web is
\* not called, no session call is made and no finish listener is
\* registered for it, and the step that handles it and the step that
\* flushes its response leave every session as it was.
C10_BadUrlRejected ==
    /\ [](\A rid \in ReqIds :
            (Handled(rid) /\ BadUrlRequest(reqs[rid])) =>
                /\ reqs[rid].pc \in {"ended", "finished"}
                /\ reqs[rid].statusCode = 400
                /\ reqs[rid].body.kind = "json"
                /\ "error" \in reqs[rid].body.fields
                /\ reqs[rid].upstreamCalls = 0
                /\ reqs[rid].sessionCalls = 0
                /\ ~reqs[rid].listening)
    /\ [][
          \A rid \in ReqIds :
              (reqs'[rid] # reqs[rid] /\ BadUrlRequest(reqs'[rid])) =>
                  /\ sessions' = sessions
                  /\ order' = order
         ]_vars

C10_Witness ==
    \E rid \in ReqIds :
        /\ reqs[rid].route = "POST /api/proxy"
        /\ reqs[rid].url = UrlNotAUrl
        /\ reqs[rid].pc = "finished"
        /\ reqs[rid].statusCode = 400
        /\ reqs[rid].sessionId \in DOMAIN sessions
        /\ sessions[reqs[rid].sessionId].lastAccessedAt < now

\* C11: a request whose upstream call failed is answered with status 502 and
\* a JSON body that has an error field, and proxy.web was called once for it.
C11_UpstreamFailureIs502 ==
    \A rid \in ReqIds :
        reqs[rid].failed =>
            /\ reqs[rid].statusCode = 502
            /\ reqs[rid].body.kind = "json"
            /\ "error" \in reqs[rid].body.fields
            /\ reqs[rid].upstreamCalls = 1

\* the request went through modifyRequest and was forwarded
Forwarded(r) == r.pc \notin {"new", "threw"} /\ r.upstreamCalls = 1

\* the entries of the override map the caller passed
CallerEntries(config) ==
    IF Has(config, "headers") /\ config.headers.given
    THEN config.headers.entries ELSE <<>>

\* the caller passed a user agent
CallerAgentGiven(config) == Has(config, "userAgent") /\ Truthy(config.userAgent)

\* entry i is the last entry of its lower-cased key
LastOfKey(entries, i) ==
    \A j \in (i + 1) .. Len(entries) :
        toLowerCase(entries[j][1]) # toLowerCase(entries[i][1])

\* C12: in the headers of every forwarded request each lower-cased key of
\* the caller's header overrides carries the caller's value, except that
\* user-agent carries the caller's user agent when one was passed.
C12_OverridesThenUserAgent ==
    \A rid \in ReqIds :
        Forwarded(reqs[rid]) =>
            LET r       == reqs[rid]
                entries == CallerEntries(r.config)
            IN /\ CallerAgentGiven(r.config) =>
                      r.headers["user-agent"] = r.config.userAgent
               /\ \A i \in 1 .. Len(entries) :
                      LET k == toLowerCase(entries[i][1]) IN
                      (LastOfKey(entries, i)
                         /\ ~(k = "user-agent" /\ CallerAgentGiven(r.config)))
                      => (k \in DOMAIN r.headers /\ r.headers[k] = entries[i][2])

\* the step delivers 'finish' for request rid
FinishStep(rid) == reqs[rid].pc = "ended" /\ reqs'[rid].pc = "finished"

\* C13: when a forwarded request of a route completes, after the upstream
\* answered or failed, and the session of its session id is live, the step
\* appends one entry to that session's history with the request's method,
\* target url, response status and duration; no other step appends to it.
C13_OneLogEntryPerRequest ==
    [][
       /\ \A rid \in ReqIds :
             (/\ FinishStep(rid)
              /\ reqs[rid].route \in Routes
              /\ reqs[rid].upstreamCalls = 1
              /\ reqs[rid].sessionId \in DOMAIN sessions)
             => LET r  == reqs[rid]
                    id == r.sessionId
                    e  == RequestLog(now', r.method, r.url.text, r.statusCode,
                                     now - r.startTime)
                IN /\ id \in DOMAIN sessions'
                   /\ sessions'[id].requestHistory =
                         TrimHistory(Append(sessions[id].requestHistory, e))
                   /\ ret'.details.requestCount =
                         Len(sessions[id].requestHistory) + 1
       /\ \A id \in DOMAIN sessions \cap DOMAIN sessions' :
             sessions'[id].requestHistory \notin {sessions[id].requestHistory, <<>>}
             => \E rid \in ReqIds : FinishStep(rid) /\ reqs[rid].sessionId = id
      ]_vars

C13_Witness ==
    \E rid \in ReqIds :
        /\ reqs[rid].pc = "finished"
        /\ reqs[rid].failed
        /\ reqs[rid].statusCode = 502
        /\ reqs[rid].sessionId \in DOMAIN sessions
        /\ ret.op = "logRequest"
        /\ ret.val = "true"
        /\ ret.entry.statusCode = 502
        /\ LET h == sessions[reqs[rid].sessionId].requestHistory IN
           Len(h) = 1 /\ h[1] = ret.entry

\* the step runs the handler of a /proxy route for request rid, which
\* carries a session id that the store does not hold
UnknownSessionStep(rid) ==
    /\ reqs[rid].pc = "new"
    /\ reqs'[rid].pc # "new"
    /\ reqs'[rid].route \in {"GET /proxy", "POST /proxy"}
    /\ reqs'[rid].sessionId # 0
    /\ reqs'[rid].sessionId \notin DOMAIN sessions

\* the same request without its session id, handled in the same state
Anonymous(r) ==
    RouteOutcome(r.route, r.method, r.url, 0, r.config.userAgent,
                 IF Has(r.config, "headers") THEN r.config.headers ELSE NoHeaders,
                 r.received, ProxyDraw, sessions, order, now, now)

\* C14: a /proxy request with a session id the store does not hold is
\* handled as the same request with no session id is: same status, body,
\* outbound headers, target and upstream call (forwarded when its url is
\* valid), and both its handler and its completion leave the store as it
\* was, without a session of that id.
C14_UnknownSessionIsAnonymous ==
    [][
       \A rid \in ReqIds :
          /\ UnknownSessionStep(rid) =>
                LET r == reqs'[rid]
                    a == Anonymous(r)
                IN /\ r.statusCode = a.statusCode
                   /\ r.body = a.body
                   /\ r.resHeaders = a.resHeaders
                   /\ r.headers = a.headers
                   /\ r.target = a.target
                   /\ r.upstreamCalls = a.upstreamCalls
                   /\ ~BadUrl(r.url) => (r.pc = "forwarded" /\ r.upstreamCalls = 1)
                   /\ sessions' = sessions
                   /\ order' = order
          /\ (/\ FinishStep(rid)
              /\ reqs[rid].route \in {"GET /proxy", "POST /proxy"}
              /\ reqs[rid].sessionId # 0
              /\ reqs[rid].sessionId \notin DOMAIN sessions)
             => (sessions' = sessions /\ order' = order)
      ]_vars

C14_Witness ==
    \E rid \in ReqIds :
        /\ reqs[rid].route = "GET /proxy"
        /\ reqs[rid].sessionId = 2
        /\ reqs[rid].pc = "finished"
        /\ reqs[rid].upstreamCalls = 1
        /\ reqs[rid].statusCode = 200
        /\ DOMAIN sessions = {1}
        /\ ret.op = "logRequest"
        /\ ret.id = 2
        /\ ret.val = "false"

(***************************************************************************)
(* Properties of the header engine.                                        *)
(***************************************************************************)
\* the first segment of a referer path
FirstSegment(path) ==
    CASE path = "/"           -> ""
      [] path = "/search"     -> "search"
      [] path = "/page"       -> "page"
      [] path = "/index.html" -> "index.html"

\* the hostname new URL gives for the referer text 'https://' + host + path:
\* with an empty host the parser skips the slashes and takes the first
\* segment of the path as host; "" when the text is not a URL
RefererHostname(ref) == IF ref[2] # "" THEN ref[2] ELSE FirstSegment(ref[3])

\* C15: for every header map and every target URL that new URL accepts,
\* fullSpoof returns a map whose referer is a URL with the hostname of the
\* target URL.
C15_RefererSharesHostname ==
    (eng.op = "fullSpoof" /\ ParseURL(eng.targetUrl).ok) =>
        /\ ~eng.threw
        /\ "referer" \in DOMAIN eng.out
        /\ RefererHostname(eng.out["referer"]) # ""
        /\ RefererHostname(eng.out["referer"]) = eng.targetUrl.host

\* the map has no name that is, in any case, one of the listed names
HasNoneOf(headers, names) ==
    \A k \in DOMAIN headers : toLowerCase(k) \notin SeqToSet(names)

\* C16: removeTrackingHeaders then removeSecurityHeaders applied to their
\* own result returns it unchanged, and each of the two returns a map equal
\* to its argument when the argument has none of its listed names.
C16_StripIdempotent ==
    /\ eng.op = "stripAgain" => eng.out = eng.headers
    /\ (eng.op = "removeTrackingHeaders" /\ HasNoneOf(eng.headers, TRACKING_HEADERS))
          => eng.out = eng.headers
    /\ (eng.op = "removeSecurityHeaders" /\ HasNoneOf(eng.headers, SECURITY_HEADERS))
          => eng.out = eng.headers

C16_Witness ==
    /\ eng.op = "stripAgain"
    /\ "X-Forwarded-For" \in DOMAIN eng.out
    /\ "CF-RAY" \notin DOMAIN eng.out
    /\ "content-security-policy" \notin DOMAIN eng.out

Last(q) == q[Len(q)]

\* C17: when applyRateLimit(minInterval) returns and the engine's call
\* before it had returned earlier, the clock at this return is at least
\* minInterval after the clock at that return.
C17_ReturnsSpacedByMinInterval ==
    [][
       (Len(eng'.returned) = Len(eng.returned) + 1 /\ Len(eng.returned) >= 1)
       => Last(eng'.returned) - Last(eng.returned) >= eng'.minInterval
      ]_vars

C17_Witness ==
    /\ Len(eng.returned) = 2
    /\ eng.minInterval = 2
    /\ eng.returned[2] - eng.returned[1] = 2
    /\ eng.wakeAt = eng.returned[2]
    /\ ~eng.waiting

(***************************************************************************)
(* Properties of the response side.                                        *)
(***************************************************************************)
\* the response of the request is the upstream's, whole or in part
PassedBack(r) == r.body.kind \in {"partial", "upstream", "partial+json"}

ForcedHeaders ==
    CorsHeaders @@ ("cache-control" :> <<"no-cache, no-store, must-revalidate">>)

\* C18: every upstream response passed back has the three
\* access-control-allow-* headers and cache-control at the pipeline's fixed
\* values, whatever the upstream sent for them.
C18_ForcedResponseHeaders ==
    \A rid \in ReqIds :
        PassedBack(reqs[rid]) =>
            \A k \in DOMAIN ForcedHeaders :
                /\ k \in DOMAIN reqs[rid].resHeaders
                /\ reqs[rid].resHeaders[k] = ForcedHeaders[k]

C18_Witness ==
    \E rid \in ReqIds :
        /\ reqs[rid].pc = "finished"
        /\ reqs[rid].body = UpstreamBody
        /\ reqs[rid].upstreamHeaders = UpstreamCors
        /\ reqs[rid].resHeaders["cache-control"] # UpstreamCors["cache-control"]
        /\ reqs[rid].resHeaders["access-control-allow-origin"] = <<"*">>

\* C19: no upstream response passed back has any of the six security
\* headers, whatever the upstream sent.
C19_NoSecurityHeadersInResponse ==
    \A rid \in ReqIds :
        PassedBack(reqs[rid]) =>
            \A k \in DOMAIN reqs[rid].resHeaders :
                toLowerCase(k) \notin SeqToSet(SECURITY_HEADERS)

(***************************************************************************)
(* Timestamps of a session.                                                *)
(***************************************************************************)
\* C20: in every reachable state every live session has
\* lastAccessedAt >= createdAt, the clock never going back.
C20_AccessedNotBeforeCreated ==
    \A id \in Live : sessions[id].lastAccessedAt >= sessions[id].createdAt

C20_Witness ==
    /\ ret.op = "getSession"
    /\ ret.val = "session"
    /\ ret.id \in Live
    /\ sessions[ret.id].lastAccessedAt > sessions[ret.id].createdAt
    /\ \E id \in Live \ {ret.id} :
          sessions[id].lastAccessedAt = sessions[id].createdAt

(***************************************************************************)
(* The fingerprint of a session.                                           *)
(***************************************************************************)
\* C21: no store operation changes the browserFingerprint of a session that
\* is live before and after it, except the createSession that makes the
\* session (anew, when randomBytes repeats an id).
C21_FingerprintFixed ==
    [][\A id \in Live :
          (id \in DOMAIN sessions' /\ ~(ret'.op = "createSession" /\ ret'.id = id))
          => sessions'[id].browserFingerprint = sessions[id].browserFingerprint]_vars

C21_Witness ==
    /\ ret.op = "getSessionDetails"
    /\ ret.val = "details"
    /\ Live = {1, 2}
    /\ sessions[1].browserFingerprint.userAgent = "Custom/1.0"
    /\ sessions[2].browserFingerprint.timezone = timezones[2]
    /\ \A id \in Live :
          /\ ObjKeys(sessions[id].cookies) # {}
          /\ ObjKeys(sessions[id].localStorage) # {}
          /\ Len(sessions[id].requestHistory) > 0

\* C22: the session createSession returns has, for every field present in
\* the overrides passed, exactly the override's value.
C22_OverridesVerbatim ==
    ret.op = "createSession" =>
       \A f \in DOMAIN ret.custom :
          sessions[ret.id].browserFingerprint[f] = ret.custom[f]

(***************************************************************************)
(* The touch of getSession.                                                *)
(***************************************************************************)
\* C23: a getSession on a stored id returns the session and keeps it in the
\* store, however long the session has been idle; a session leaves the
\* store only through deleteSession, clearAllSessions or the eviction of
\* createSession.
C23_NeverTimedOut ==
    [][/\ (ret'.op = "getSession" /\ ret'.id \in Live)
          => (ret'.val = "session" /\ ret'.id \in DOMAIN sessions')
       /\ (Live \ DOMAIN sessions' # {})
          => ret'.op \in {"deleteSession", "clearAllSessions", "createSession"}
      ]_vars

C23_Witness ==
    /\ ret.op = "getSession"
    /\ ret.val = "session"
    /\ ret.idle > SESSION_TIMEOUT
    /\ ret.id \in Live
    /\ sessions[ret.id].lastAccessedAt >= now - 1

TouchingOps ==
    {"getSession", "setCookie", "getCookie", "setLocalStorage", "getLocalStorage",
     "logRequest", "getSessionDetails"}

\* C24: each of getSession, setCookie, getCookie, setLocalStorage,
\* getLocalStorage, logRequest and getSessionDetails on a live session sets
\* that session's lastAccessedAt to the time of the call and leaves every
\* other session with its lastAccessedAt; getStats and deleteSession change
\* the lastAccessedAt of no session.
C24_ReadsAndWritesTouch ==
    [][/\ (ret'.op \in TouchingOps /\ ret'.id \in Live)
          => /\ Live \subseteq DOMAIN sessions'
             /\ sessions'[ret'.id].lastAccessedAt = now
             /\ \A o \in Live \ {ret'.id} :
                   sessions'[o].lastAccessedAt = sessions[o].lastAccessedAt
       /\ ret'.op \in {"getStats", "deleteSession"}
          => \A o \in Live \cap DOMAIN sessions' :
                sessions'[o].lastAccessedAt = sessions[o].lastAccessedAt
      ]_vars

C24_Witness ==
    /\ ret.op = "getLocalStorage"
    /\ Live = {1, 2}
    /\ now = 2
    /\ sessions[ret.id].createdAt = 0
    /\ sessions[ret.id].lastAccessedAt = 2
    /\ \E o \in Live \ {ret.id} :
          sessions[o].createdAt = 0 /\ sessions[o].lastAccessedAt = 1

(***************************************************************************)
(* Header stripping and spoofing.                                          *)
(***************************************************************************)
\* C25: the map removeTrackingHeaders returns has no key equal to a
\* tracking header name in any letter case, and the map
\* removeSecurityHeaders returns none equal to a security header name.
C25_StripsEveryCase ==
    /\ eng.op = "removeTrackingHeaders" => HasNoneOf(eng.out, TRACKING_HEADERS)
    /\ eng.op = "removeSecurityHeaders" => HasNoneOf(eng.out, SECURITY_HEADERS)

\* the three fixed values fullSpoof assigns last
ForcedRequestHeaders ==
    ("upgrade-insecure-requests" :> <<"1">>) @@ ("cache-control" :> <<"max-age=0">>)
    @@ ("pragma" :> <<"no-cache">>)

\* C26: the map fullSpoof returns has upgrade-insecure-requests, cache-control
\* and pragma at their fixed values, a referer, and the twelve spoofed
\* headers at the values of one draw of spoofHeaders: the stripping steps
\* in between remove none of them.
C26_SpoofedAndForcedSurvive ==
    (eng.op = "fullSpoof" /\ ~eng.threw) =>
       /\ \A k \in DOMAIN ForcedRequestHeaders :
             k \in DOMAIN eng.out /\ eng.out[k] = ForcedRequestHeaders[k]
       /\ "referer" \in DOMAIN eng.out
       /\ \E p \in 1 .. Len(refererPaths) :
             eng.out["referer"] = <<"https://", eng.targetUrl.host, refererPaths[p]>>
       /\ \E draw \in EngineDraws :
             \A k \in DOMAIN SpoofedValues(draw) :
                k \in DOMAIN eng.out /\ eng.out[k] = SpoofedValues(draw)[k]

C26_Witness ==
    /\ eng.op = "fullSpoof"
    /\ ~eng.threw
    /\ {"user-agent", "referer", "cf-ray"} \subseteq DOMAIN eng.headers
    /\ eng.out["user-agent"] # eng.headers["user-agent"]
    /\ eng.out["referer"] # eng.headers["referer"]
    /\ "cf-ray" \notin DOMAIN eng.out
    /\ "cookie" \in DOMAIN eng.out

\* C27: the headers of every forwarded request made without caller header
\* overrides hold no tracking header name and no security header name.
C27_ForwardedWithoutTrackingHeaders ==
    \A rid \in ReqIds :
       (/\ Forwarded(reqs[rid])
        /\ reqs[rid].method # "OPTIONS"
        /\ CallerEntries(reqs[rid].config) = <<>>)
       => /\ HasNoneOf(reqs[rid].headers, TRACKING_HEADERS)
          /\ HasNoneOf(reqs[rid].headers, SECURITY_HEADERS)

\* C28: every forwarded request other than OPTIONS has gone through
\* applyRateLimit on its engine before the upstream call.
C28_PipelineRateLimits ==
    \A rid \in ReqIds :
       (Forwarded(reqs[rid]) /\ reqs[rid].method # "OPTIONS")
       => reqs[rid].rateLimitCalls >= 1

(***************************************************************************)
(* applyRateLimit under concurrent callers.                                *)
(***************************************************************************)
ReturnedCallers == {c \in Callers : eng.inflight[c].pc = "returned"}

\* C29: requestCount is the number of applyRateLimit calls that have
\* returned, and lastRequestTime is the clock at the latest return (its
\* initial value while none has returned), whatever the interleaving.
C29_CountsEveryReturn ==
    /\ eng.requestCount = Cardinality(ReturnedCallers)
    /\ eng.requestCount = Len(eng.returned)
    /\ IF ReturnedCallers = {} THEN eng.lastRequestTime = LongAgo
       ELSE /\ eng.lastRequestTime = Last(eng.returned)
            /\ \A c \in ReturnedCallers :
                  eng.inflight[c].returnedAt <= eng.lastRequestTime
            /\ \E c \in ReturnedCallers :
                  eng.inflight[c].returnedAt = eng.lastRequestTime

C29_Witness ==
    /\ eng.requestCount = 3
    /\ \E c1, c2 \in ReturnedCallers :
          /\ c1 # c2
          /\ eng.inflight[c1].countSeen = eng.inflight[c2].countSeen
          /\ eng.inflight[c1].startedAt < eng.inflight[c1].returnedAt
          /\ eng.inflight[c2].startedAt < eng.inflight[c2].returnedAt

\* C30: two calls return less than the later one's minInterval apart only
\* when the later one read lastRequestTime before the earlier one returned,
\* both being in flight at once; the witness is such a pair, both having
\* read the same lastRequestTime.
C30_UnderWaitOnlyWhenRacing ==
    \A c1, c2 \in ReturnedCallers :
       (/\ c1 # c2
        /\ eng.inflight[c1].returnedAt <= eng.inflight[c2].returnedAt
        /\ eng.inflight[c2].returnedAt - eng.inflight[c1].returnedAt
              < eng.inflight[c2].minInterval)
       => \/ /\ eng.inflight[c2].read < eng.inflight[c1].returnedAt
             /\ eng.inflight[c2].startedAt <= eng.inflight[c1].returnedAt
          \/ /\ eng.inflight[c1].returnedAt = eng.inflight[c2].returnedAt
             /\ eng.inflight[c1].read < eng.inflight[c2].returnedAt
             /\ eng.inflight[c1].startedAt <= eng.inflight[c2].returnedAt

C30_Witness ==
    \E c1, c2 \in ReturnedCallers :
       /\ c1 # c2
       /\ eng.inflight[c1].minInterval = eng.inflight[c2].minInterval
       /\ eng.inflight[c1].read = eng.inflight[c2].read
       /\ eng.inflight[c1].read # LongAgo
       /\ eng.inflight[c1].startedAt < eng.inflight[c1].returnedAt
       /\ eng.inflight[c2].startedAt < eng.inflight[c1].returnedAt
       /\ eng.inflight[c1].returnedAt <= eng.inflight[c2].returnedAt
       /\ eng.inflight[c2].returnedAt - eng.inflight[c1].returnedAt
             < eng.inflight[c2].minInterval

(***************************************************************************)
(* Requests bound to one session, in flight together.                      *)
(***************************************************************************)
\* the requests whose completion has logged to session id
LoggedTo(id) ==
    {rid \in ReqIds : /\ reqs[rid].pc = "finished"
                      /\ reqs[rid].listening
                      /\ reqs[rid].sessionId = id}

Min(a, b) == IF a < b THEN a ELSE b

\* C31: with several requests of one session in flight, every completion
\* appends its own entry to what the history holds then and keeps the last
\* HISTORY_LIMIT entries, every setCookie and setLocalStorage writes its
\* value, and each of the three leaves the other two kinds of data as they
\* are; after k completions the history holds min(k, HISTORY_LIMIT)
\* entries, each the entry of a completed request.
C31_NoEntryLost ==
    /\ [][/\ \A rid \in ReqIds :
              (/\ FinishStep(rid)
               /\ reqs[rid].listening
               /\ reqs[rid].sessionId \in Live)
              => LET r  == reqs[rid]
                     id == r.sessionId
                     e  == RequestLog(now', r.method, r.url.text, r.statusCode,
                                      now - r.startTime)
                 IN /\ id \in DOMAIN sessions'
                    /\ sessions'[id].requestHistory =
                          SliceLast(Append(sessions[id].requestHistory, e),
                                    HISTORY_LIMIT)
                    /\ sessions'[id].cookies = sessions[id].cookies
                    /\ sessions'[id].localStorage = sessions[id].localStorage
          /\ (ret'.op = "setCookie" /\ ret'.id \in Live)
              => /\ ret'.val = "true"
                 /\ sessions'[ret'.id].cookies =
                       ObjSet(sessions[ret'.id].cookies,
                              CookieKey(ret'.args.name, ret'.args.domain),
                              ret'.args.value)
                 /\ sessions'[ret'.id].requestHistory =
                       sessions[ret'.id].requestHistory
                 /\ sessions'[ret'.id].localStorage =
                       sessions[ret'.id].localStorage
          /\ (ret'.op = "setLocalStorage" /\ ret'.id \in Live)
              => /\ ret'.val = "true"
                 /\ sessions'[ret'.id].localStorage =
                       ObjSet(sessions[ret'.id].localStorage, ret'.args.name,
                              ret'.args.value)
                 /\ sessions'[ret'.id].requestHistory =
                       sessions[ret'.id].requestHistory
                 /\ sessions'[ret'.id].cookies = sessions[ret'.id].cookies
         ]_vars
    /\ [](\A id \in Live :
             LET h == sessions[id].requestHistory IN
             /\ Len(h) = Min(Cardinality(LoggedTo(id)), HISTORY_LIMIT)
             /\ \A i \in 1 .. Len(h) :
                   \E rid \in LoggedTo(id) :
                      /\ h[i].method = reqs[rid].method
                      /\ h[i].url = reqs[rid].url.text
                      /\ h[i].statusCode = reqs[rid].statusCode)

C31_Witness ==
    /\ Cardinality(LoggedTo(1)) = 3
    /\ 1 \in Live
    /\ Len(sessions[1].requestHistory) = HISTORY_LIMIT
    /\ sessions[1].requestHistory[1].statusCode = 502
    /\ sessions[1].requestHistory[2].statusCode = 200
    /\ reqs[1].statusCode = 200
    /\ reqs[2].statusCode = 200
    /\ reqs[3].statusCode = 502
    /\ ObjKeys(sessions[1].cookies) # {}
    /\ ObjKeys(sessions[1].localStorage) # {}

\* C32: when a request completes and the session of its session id is no
\* longer in the store, the completion's logRequest returns false, the
\* request completes all the same, and the store is left as it was: the
\* session is not made again and no history gains an entry.
C32_LogToGoneSessionIsNoOp ==
    [][\A rid \in ReqIds :
          (/\ FinishStep(rid)
           /\ reqs[rid].listening
           /\ reqs[rid].sessionId \notin Live)
          => /\ ret'.op = "logRequest"
             /\ ret'.id = reqs[rid].sessionId
             /\ ret'.val = "false"
             /\ sessions' = sessions
             /\ order' = order
      ]_vars

C32_Witness ==
    \E rid \in ReqIds :
       /\ reqs[rid].pc = "finished"
       /\ reqs[rid].route = "POST /api/proxy"
       /\ reqs[rid].upstreamCalls = 1
       /\ reqs[rid].sessionCalls = 2
       /\ reqs[rid].sessionId \notin Live
       /\ ret.op = "logRequest"
       /\ ret.val = "false"
       /\ Cardinality(Live) = MAX_SESSIONS
       /\ \A o \in Live : sessions[o].requestHistory = <<>>

(***************************************************************************)
(* The states of a request.                                                *)
(***************************************************************************)
\* the state of the request's life cycle that request record r is in; the
\* handler passes VALIDATED and HEADERS_TRANSFORMED within its one run
Phase(r) ==
    CASE r.pc = "new"       -> "RECEIVED"
      [] r.pc = "forwarded" -> "FORWARDED"
      [] r.pc = "streaming" -> "RESPONSE_TRANSFORMED"
      [] r.pc = "threw"     -> "ERRORED"
      [] r.pc \in {"ended", "finished"} ->
            IF r.failed \/ r.body.kind = "json" THEN "ERRORED" ELSE "COMPLETED"

Rank(phase) ==
    CASE phase = "RECEIVED"             -> 1
      [] phase = "FORWARDED"            -> 4
      [] phase = "RESPONSE_TRANSFORMED" -> 5
      [] phase = "COMPLETED"            -> 6
      [] phase = "ERRORED"              -> 6

\* C33: a request of a route only moves forward through RECEIVED,
\* FORWARDED, RESPONSE_TRANSFORMED, COMPLETED; it enters ERRORED only from
\* its handler's run (validation) or from FORWARDED; its headers are
\* transformed and the upstream is called only for a target URL that
\* parses; COMPLETED and ERRORED are not left.
C33_StatesInOrder ==
    [][\A rid \in ReqIds :
          LET r == reqs[rid]
              q == reqs'[rid]
          IN q.route \in Routes =>
                /\ Rank(Phase(q)) >= Rank(Phase(r))
                /\ (Phase(q) = "ERRORED" /\ Phase(r) # "ERRORED")
                      => Phase(r) \in {"RECEIVED", "FORWARDED"}
                /\ Phase(r) \in {"COMPLETED", "ERRORED"} => Phase(q) = Phase(r)
                /\ (q.spoofCalls > 0 \/ q.upstreamCalls > 0) => ParseURL(q.url).ok
      ]_vars

\* the step is the upstream failure of request rid
FailStep(rid) == ~reqs[rid].failed /\ reqs'[rid].failed

\* C34: with a fair upstream every forwarded request comes to its end,
\* completed or errored, and its completion callback runs; the failure of
\* one request changes neither the store nor any other request.
C34_ForwardedRequestsEnd ==
    /\ \A rid \in ReqIds :
          (reqs[rid].pc = "forwarded")
             ~> (/\ reqs[rid].pc = "finished"
                 /\ Phase(reqs[rid]) \in {"COMPLETED", "ERRORED"})
    /\ [][\A rid \in ReqIds :
             FailStep(rid) =>
                /\ UNCHANGED storeVars
                /\ \A o \in ReqIds \ {rid} : reqs'[o] = reqs[o]
         ]_vars

C34_Witness ==
    /\ reqs[1].pc = "finished"
    /\ reqs[1].failed
    /\ reqs[1].statusCode = 502
    /\ reqs[2].pc = "finished"
    /\ ~reqs[2].failed
    /\ reqs[2].body = UpstreamBody
    /\ reqs[3].pc = "forwarded"
    /\ 1 \in Live
    /\ Len(sessions[1].requestHistory) = 2
    /\ sessions[1].requestHistory[1].statusCode = 502
    /\ sessions[1].requestHistory[2].statusCode = 200
    /\ ret.op = "setCookie"
    /\ ret.val = "true"

\* the request was handed to proxy.web or proxy.ws
HandedOver(r) == r.upstreamCalls = 1 /\ r.route \in Routes \cup {"handleWebSocket"}

\* C35: for a request handed to the proxy, by a route or as a WebSocket
\* upgrade, the target is the scheme, host and port of the configured URL
\* and nothing of its path or query, and the request line sent upstream is
\* the inbound req.url.
C35_TargetIsOrigin ==
    \A rid \in ReqIds :
       LET r == reqs[rid]
           u == r.config.targetUrl
       IN (HandedOver(r) /\ u.scheme \in SpecialSchemes) =>
             /\ r.target = IF u.port = ""
                           THEN <<u.scheme, "://", u.host>>
                           ELSE <<u.scheme, "://", u.host, ":", u.port>>
             /\ \A i \in 1 .. Len(r.target) : r.target[i] \notin {u.path, u.query, "?"}
             /\ r.outgoing = r.reqUrl
             /\ r.reqUrl = IF r.route = "handleWebSocket" THEN r.reqUrl
                           ELSE InboundUrl(r.route, r.url)

C35_Witness ==
    /\ reqs[1].route = "GET /proxy"
    /\ reqs[1].pc = "streaming"
    /\ reqs[1].url = UrlExample
    /\ reqs[1].target = <<"https", "://", "example.com">>
    /\ reqs[1].outgoing = <<"/proxy", "?", "url=", "https://example.com/base?x=1">>
    /\ reqs[2].route = "handleWebSocket"
    /\ reqs[2].pc = "upgraded"
    /\ reqs[2].url = UrlOther
    /\ reqs[2].target = <<"http", "://", "other.org", ":", "8080">>
    /\ reqs[2].outgoing = <<"/chat", "?", "room=1">>

\* C36: in the headers of every forwarded request no override entry with
\* an empty value has taken effect: its header is the spoofed (or received)
\* one or absent, never the empty value.
C36_EmptyOverridesSkipped ==
    \A rid \in ReqIds :
       Forwarded(reqs[rid]) =>
          LET r       == reqs[rid]
              entries == CallerEntries(r.config)
          IN \A i \in 1 .. Len(entries) :
                entries[i][2] = <<>> =>
                   LET k == toLowerCase(entries[i][1])
                   IN k \in DOMAIN r.headers => r.headers[k] # <<>>

\* what getCookie(id, name, domain) returns in the store S
CookieOf(S, id, name, domain) == ObjGet(S[id].cookies, CookieKey(name, domain))

\* C37: a successful setCookie(1, name, value, domain) makes getCookie of
\* that pair return value and leaves what getCookie returns for every
\* other (name, domain) pair as it was.
C37_CookiePairsIndependent ==
    [][(ret'.op = "setCookie" /\ ret'.val = "true" /\ 1 \in DOMAIN sessions) =>
          /\ CookieOf(sessions', 1, ret'.args.name, ret'.args.domain) = ret'.args.value
          /\ \A n \in PairNames, dom \in PairDomains :
                <<n, dom>> # <<ret'.args.name, ret'.args.domain>>
                   => CookieOf(sessions', 1, n, dom) = CookieOf(sessions, 1, n, dom)
      ]_vars

\* the response of r was written by the ProxyServer: the OPTIONS
\* short-circuit, the upstream's response, or the error listener's
PipelineResponse(r) ==
    /\ r.headersSent
    /\ ParseURL(r.url).ok
    /\ \/ r.upstreamCalls = 1
       \/ r.route = "handleRequest" /\ r.method = "OPTIONS"

\* C38: every response the ProxyServer writes for a request with a valid
\* target URL has the three access-control-allow-* headers at their fixed
\* values.
C38_EveryResponseHasCors ==
    \A rid \in ReqIds :
       PipelineResponse(reqs[rid]) =>
          \A k \in DOMAIN CorsHeaders :
             /\ k \in DOMAIN reqs[rid].resHeaders
             /\ reqs[rid].resHeaders[k] = CorsHeaders[k]

\* the position of id in the insertion order O
Pos(O, id) == CHOOSE i \in 1 .. Len(O) : O[i] = id

\* among the sessions of minimal lastAccessedAt, the one inserted last
LastInsertedOfOldest(S, O) ==
    CHOOSE v \in DOMAIN S :
       /\ \A w \in DOMAIN S : S[v].lastAccessedAt <= S[w].lastAccessedAt
       /\ \A w \in DOMAIN S :
             S[w].lastAccessedAt = S[v].lastAccessedAt => Pos(O, w) <= Pos(O, v)

\* C39: a createSession on a full store evicts exactly one session, fixed
\* by the store's state: of the sessions with the minimal lastAccessedAt
\* the one inserted last; below capacity it evicts none.
C39_EvictionDeterministic ==
    [][(ret'.op = "createSession" /\ <<sessions', order', ret'>> # <<sessions, order, ret>>) =>
          IF Cardinality(DOMAIN sessions) >= MAX_SESSIONS
          THEN ret'.evicted = {LastInsertedOfOldest(sessions, order)}
          ELSE ret'.evicted = {}
      ]_vars

C39_Witness ==
    /\ ret.op = "createSession"
    /\ ret.id = 3
    /\ ret.evicted = {2}
    /\ order = <<1, 3>>
    /\ now = 0
    /\ sessions[1].lastAccessedAt = 0

============================================================================
